---- MODULE Spec2Model ----
(***************************************************************************)
(* Campus map agent (map_agent.py): the entity catalog, the exact, fuzzy,  *)
(* keyword and similarity matchers, the intent extractor, the resolution   *)
(* orchestrator tool_query_location and the confirmation slot kept by      *)
(* handle_user_query.                                                      *)
(*                                                                         *)
(* Text is modelled character by character: a string is a sequence of      *)
(* characters, a character is a TLA+ string of length one, and a           *)
(* non-ASCII character is written as the token "uXXXX" of its code point   *)
(* (so <<"u505c", "u8f66">> is the two-character word for parking).        *)
(* Scores are exact fractions [num, den]: difflib's ratio is 2*M/T with    *)
(* small integers M and T, and the comparisons the code makes on the       *)
(* doubles agree with the comparisons of the fractions.                    *)
(***************************************************************************)
EXTENDS Integers, Sequences, FiniteSets, TLC

VARIABLES
    ENTITIES,              \* map_agent.py:78   category -> list of entities
    FACILITIES,            \* map_agent.py:82   the facilities.json "facilities" object
    INTENT_CACHE,          \* map_agent.py:216  phrase -> intent record
    pending_confirmation,  \* map_agent.py:722  the process-wide confirmation slot
    owner,                 \* history: the session whose turn left the slot as it is
    turn,                  \* history: what the last call of handle_user_query did
    extractions            \* map_agent.py:226  thread -> its call of extract_intent_with_llm

vars == <<ENTITIES, FACILITIES, INTENT_CACHE, pending_confirmation, owner, turn, extractions>>

----------------------------------------------------------------------------
(* str.lower, str.strip, `x in s`, str.startswith, str.isdigit *)

UpperCase == <<"A","B","C","D","E","F","G","H","I","J","K","L","M","N","O","P","Q","R","S","T","U","V","W","X","Y","Z">>
LowerCase == <<"a","b","c","d","e","f","g","h","i","j","k","l","m","n","o","p","q","r","s","t","u","v","w","x","y","z">>

LowerChar(c) ==
    IF \E i \in DOMAIN UpperCase : UpperCase[i] = c
    THEN LowerCase[CHOOSE i \in DOMAIN UpperCase : UpperCase[i] = c]
    ELSE c

Lower(s) == [i \in 1..Len(s) |-> LowerChar(s[i])]

IsSpace(c) == c \in {" ", "\t", "\n"}

RECURSIVE LStrip(_)
LStrip(s) == IF s # <<>> /\ IsSpace(Head(s)) THEN LStrip(Tail(s)) ELSE s

RECURSIVE RStrip(_)
RStrip(s) == IF s # <<>> /\ IsSpace(s[Len(s)]) THEN RStrip(SubSeq(s, 1, Len(s) - 1)) ELSE s

Strip(s) == RStrip(LStrip(s))

\* Python's `needle in hay` on strings
Contains(hay, needle) ==
    \E i \in 0..(Len(hay) - Len(needle)) : SubSeq(hay, i + 1, i + Len(needle)) = needle

StartsWith(s, prefix) ==
    Len(s) >= Len(prefix) /\ SubSeq(s, 1, Len(prefix)) = prefix

IsDigit(c) == c \in {"0","1","2","3","4","5","6","7","8","9"}

\* int(s) for the one-digit strings the handler converts
DigitValue(c) == CHOOSE n \in 0..9 : <<"0","1","2","3","4","5","6","7","8","9">>[n + 1] = c

Min(S) == CHOOSE x \in S : \A y \in S : x <= y

\* None, and the value of a key a dict or a JSON object does not have: a sequence
\* that is no string (its element is no character)
None == << "<None>" >>

----------------------------------------------------------------------------
(* The catalog: entities.json merged with facilities.json *)

Item(name, aliases) == [name |-> name, aliases |-> aliases, type |-> None, subcategory |-> None]

Facility(name, aliases, subcategory) ==
    [name |-> name, aliases |-> aliases, subcategory |-> subcategory]

CATEGORIES == << <<"b", "u", "i", "l", "d", "i", "n", "g", "s">>, <<"d", "e", "p", "a", "r", "t", "m", "e", "n", "t", "s">>, <<"f", "a", "c", "i", "l", "i", "t", "i", "e", "s">> >>

\* cat[:-1] if cat.endswith('s') else cat
CatName(cat) ==
    IF cat # <<>> /\ cat[Len(cat)] = "s" THEN SubSeq(cat, 1, Len(cat) - 1) ELSE cat

\* What the module holds once lines 77-106 have run on the two files. src.facilities
\* is unused when facilities.json is missing (FileNotFoundError, line 104).
\* dict.get(key, default)
Get(dict, key, default) == IF key \in DOMAIN dict THEN dict[key] ELSE default

\* FACILITIES is a dict: the empty one, << >>, when the file is missing
LoadFacilities(src) == IF src.has_facilities THEN src.facilities ELSE << >>

LoadEntities(src) ==
    IF ~src.has_facilities THEN src.primary
    ELSE LET existing_names == {src.primary.facilities[i].name : i \in DOMAIN src.primary.facilities}
             fresh == SelectSeq(src.facilities.all, LAMBDA f : f.name \notin existing_names)
         IN  [src.primary EXCEPT !.facilities =
                 @ \o [i \in 1..Len(fresh) |->
                         [name |-> fresh[i].name, aliases |-> fresh[i].aliases,
                          type |-> <<"f", "a", "c", "i", "l", "i", "t", "y">>, subcategory |-> fresh[i].subcategory]]]

\* The entities in the order every scan visits them: category by category, list order
\* within a category, each with the category name the scans report for it.
Listing(entities) ==
    LET row(key, cat) == [i \in 1..Len(entities[key]) |-> [item |-> entities[key][i], cat |-> CatName(cat)]]
    IN  row("buildings", CATEGORIES[1]) \o row("departments", CATEGORIES[2]) \o row("facilities", CATEGORIES[3])

----------------------------------------------------------------------------
(* The sources the catalog is built from *)

GymFacility  == Facility(<<"G", "y", "m">>, << <<"s", "p", "o", "r", "t", "s", " ", "h", "a", "l", "l">> >>, <<"S", "p", "o", "r", "t", "s">>)
PoolFacility == Facility(<<"P", "o", "o", "l">>, << <<"s", "w", "i", "m", "m", "i", "n", "g", " ", "p", "o", "o", "l">> >>, <<"S", "p", "o", "r", "t", "s">>)
CarPark      == Facility(<<"C", "a", "r", " ", "P", "a", "r", "k">>, << <<"u505c", "u8f66", "u573a">>, <<"p", "a", "r", "k", "i", "n", "g">> >>, <<"P", "a", "r", "k", "i", "n", "g">>)

SrcMain ==
    [primary |->
        [buildings   |-> << Item(<<"L", "i", "b", "r", "a", "r", "y">>, << <<"l", "i", "b">>, <<"u56fe", "u4e66", "u9986">> >>),
                            Item(<<"K", "n", "o", "w", "l", "e", "s">>, << <<"k", "b">> >>) >>,
         departments |-> << Item(<<"M", "u", "s", "i", "c">>, << <<"u97f3", "u4e50", "u7cfb">> >>),
                            Item(<<"L", "a", "w">>, << <<"l", "i", "b">> >>) >>,
         facilities  |-> << Item(<<"G", "y", "m">>, << <<"f", "i", "t", "n", "e", "s", "s">> >>),
                            Item(<<"M", "u", "s", "i", "c">>, << <<"m", "u", "s", "i", "c", " ", "r", "o", "o", "m">> >>) >>],
     has_facilities |-> TRUE,
     facilities |->
        [all |-> << GymFacility, PoolFacility, CarPark >>,
         subcategory |-> (<<"S", "p", "o", "r", "t", "s">> :> << GymFacility, PoolFacility >>)
                         @@ (<<"P", "a", "r", "k", "i", "n", "g">> :> << CarPark >>)]]

Cafe(n) == Facility(<<"C", "a", "f", "e", " ">> \o <<n>>, << >>, <<"C", "a", "t", "e", "r", "i", "n", "g", " ", "O", "u", "t", "l", "e", "t", "s">>)
Cafes   == << Cafe("A"), Cafe("B"), Cafe("C"), Cafe("D"), Cafe("E"), Cafe("F") >>

SrcCafes ==
    [primary |-> [buildings |-> << Item(<<"C", "a", "f", "e", "t", "e", "r", "i", "a">>, << >>) >>, departments |-> << >>, facilities |-> << >>],
     has_facilities |-> TRUE,
     facilities |-> [all |-> Cafes, subcategory |-> (<<"C", "a", "t", "e", "r", "i", "n", "g", " ", "O", "u", "t", "l", "e", "t", "s">> :> Cafes)]]

SrcEmpty ==
    [primary |-> [buildings |-> << >>, departments |-> << >>, facilities |-> << >>],
     has_facilities |-> FALSE,
     facilities |-> [all |-> << >>, subcategory |-> << >>]]

\* a facilities.json that lists one name twice
LapPool == Facility(<<"P", "o", "o", "l">>, << <<"l", "a", "p", " ", "p", "o", "o", "l">> >>, <<"S", "p", "o", "r", "t", "s">>)

SrcTwice ==
    [primary |-> [buildings |-> << >>, departments |-> << >>,
                  facilities |-> << Item(<<"G", "y", "m">>, << <<"f", "i", "t", "n", "e", "s", "s">> >>) >>],
     has_facilities |-> TRUE,
     facilities |->
        [all |-> << GymFacility, PoolFacility, LapPool >>,
         subcategory |-> (<<"S", "p", "o", "r", "t", "s">> :> << GymFacility, PoolFacility, LapPool >>)]]

Sources == {SrcMain, SrcCafes, SrcEmpty, SrcTwice}

----------------------------------------------------------------------------
(* local_match_exact and local_match_fuzzy; a hit is <<name, category>>, no hit << >> *)

NoHit == << >>

\* the first of the places `hits` of the scan order, as <<name, category>>
FirstHit(hits) ==
    LET listing == Listing(ENTITIES)
    IN  IF hits = {} THEN NoHit
        ELSE << listing[Min(hits)].item.name, listing[Min(hits)].cat >>

\* variant of local_match_exact: the names are compared as the catalog spells them
local_match_exact_as_spelled(q) ==
    LET ql == Strip(Lower(q))
        listing == Listing(ENTITIES)
        Matches(item) ==
            \/ item.name = ql
            \/ \E a \in DOMAIN item.aliases : item.aliases[a] = ql
    IN  FirstHit({i \in DOMAIN listing : Matches(listing[i].item)})

local_match_exact(q) ==
    LET ql == Strip(Lower(q))
        listing == Listing(ENTITIES)
        Matches(item) ==
            \/ Lower(item.name) = ql
            \/ \E a \in DOMAIN item.aliases : Lower(item.aliases[a]) = ql
    IN  FirstHit({i \in DOMAIN listing : Matches(listing[i].item)})

local_match_fuzzy(q) ==
    LET ql == Lower(q)
        listing == Listing(ENTITIES)
        Matches(item) ==
            \/ Contains(ql, Lower(item.name))
            \/ \E a \in DOMAIN item.aliases : Contains(ql, Lower(item.aliases[a]))
    IN  FirstHit({i \in DOMAIN listing : Matches(listing[i].item)})

----------------------------------------------------------------------------
(* calculate_similarity: difflib.SequenceMatcher(None, a, b).ratio()        *)

\* the length of the block of equal characters that starts at a[i] and b[j]
RECURSIVE Run(_, _, _, _)
Run(a, b, i, j) ==
    IF i <= Len(a) /\ j <= Len(b) /\ a[i] = b[j] THEN 1 + Run(a, b, i + 1, j + 1) ELSE 0

\* the longest of the blocks <<i, j, k>>, the earliest in a and then the earliest in b
\* among the longest; <<0, 0, 0>> when there is none
Longest(blocks) ==
    IF blocks = {} THEN <<0, 0, 0>>
    ELSE CHOOSE m \in blocks : \A n \in blocks :
            \/ m[3] > n[3]
            \/ m[3] = n[3] /\ m[1] < n[1]
            \/ m[3] = n[3] /\ m[1] = n[1] /\ m[2] <= n[2]

\* find_longest_match: <<i, j, k>>, the longest block a[i..i+k-1] = b[j..j+k-1]; k = 0
\* when a and b share no character
LongestMatch(a, b) ==
    Longest({ <<p[1], p[2], Run(a, b, p[1], p[2])>> :
                p \in {p \in (DOMAIN a) \X (DOMAIN b) : a[p[1]] = b[p[2]]} })

RECURSIVE MatchedChars(_, _)

\* the characters matched by block m and, recursively, to its left and to its right
Around(a, b, m) ==
    IF m[3] = 0 THEN 0
    ELSE m[3] + MatchedChars(SubSeq(a, 1, m[1] - 1), SubSeq(b, 1, m[2] - 1))
              + MatchedChars(SubSeq(a, m[1] + m[3], Len(a)), SubSeq(b, m[2] + m[3], Len(b)))

\* the sum of the sizes of get_matching_blocks()
MatchedChars(a, b) == Around(a, b, LongestMatch(a, b))

Score(num, den) == [num |-> num, den |-> den]

\* 2.0 * matches / length, and 1.0 when both strings are empty
calculate_similarity(s1, s2) ==
    IF Len(s1) + Len(s2) = 0 THEN Score(1, 1)
    ELSE Score(2 * MatchedChars(Lower(s1), Lower(s2)), Len(s1) + Len(s2))

\* variant of Greater: equal scores count as greater
GreaterOrEqual(x, y) == x.num * y.den >= y.num * x.den

\* x > y on scores
Greater(x, y) == x.num * y.den > y.num * x.den

----------------------------------------------------------------------------
(* find_best_matches *)

\* c put into the sorted list `rest`, behind the entries at its front that score more
Insert(c, rest, n) == SubSeq(rest, 1, n) \o << c >> \o SubSeq(rest, n + 1, Len(rest))

Ahead(c, rest) == Cardinality({i \in DOMAIN rest : \A j \in 1..i : Greater(rest[j][3], c[3])})

\* variant of SortByScore: the candidates stay in scan order
KeepScanOrder(cands) == cands

RECURSIVE SortByScore(_)

Sorted(c, rest) == Insert(c, rest, Ahead(c, rest))

\* list.sort(key=score, reverse=True): descending and stable
SortByScore(cands) ==
    IF cands = << >> THEN << >> ELSE Sorted(Head(cands), SortByScore(Tail(cands)))

\* if alias_score > score: score = alias_score
Higher(alias_score, score) == IF Greater(alias_score, score) THEN alias_score ELSE score

RECURSIVE BestOf(_, _, _)
BestOf(ql, aliases, score) ==
    IF aliases = << >> THEN score
    ELSE BestOf(ql, Tail(aliases), Higher(calculate_similarity(ql, Head(aliases)), score))

Scored(listing, ql) ==
    [i \in DOMAIN listing |->
        << listing[i].item.name, listing[i].cat,
           BestOf(ql, listing[i].item.aliases, calculate_similarity(ql, listing[i].item.name)) >>]

ScoredListing(entities, query) == Scored(Listing(entities), Strip(Lower(query)))

\* candidates[:top_n]
Top(candidates, top_n) == SubSeq(candidates, 1, Min({top_n, Len(candidates)}))

find_best_matches(query, top_n) == Top(SortByScore(ScoredListing(ENTITIES, query)), top_n)

----------------------------------------------------------------------------
(* The intent extractor *)

\* An intent record. The records of the seed cache and those built from an oracle
\* answer have no "subcategory" key: subcategory is None there.
Intent(intent, keywords, category_hint, subcategory) ==
    [intent |-> intent, keywords |-> keywords, category_hint |-> category_hint,
     subcategory |-> subcategory]

SportsSeed == Intent(<<"f", "i", "n", "d", "_", "s", "p", "o", "r", "t", "s", "_", "f", "a", "c", "i", "l", "i", "t", "y">>,
                     << <<"u8fd0", "u52a8">>, <<"u4f53", "u80b2">>, <<"s", "p", "o", "r", "t", "s">>, <<"g", "y", "m">>, <<"f", "i", "t", "n", "e", "s", "s">>, <<"u6e38", "u6cf3">>, <<"s", "w", "i", "m", "m", "i", "n", "g">>,
                        <<"u7fbd", "u6bdb", "u7403">>, <<"u7bee", "u7403">>, <<"u5065", "u8eab", "u623f">> >>, <<"f", "a", "c", "i", "l", "i", "t", "y">>, None)
BankSeed   == Intent(<<"f", "i", "n", "d", "_", "b", "a", "n", "k">>, << <<"b", "a", "n", "k">>, <<"u94f6", "u884c">>, <<"b", "a", "n", "k", "i", "n", "g">>, <<"a", "t", "m">> >>, <<"f", "a", "c", "i", "l", "i", "t", "y">>, None)

SeedCache ==
       (<<"u6211", "u60f3", "u53bb", "u8fd0", "u52a8">> :> SportsSeed)
    @@ (<<"u6211", "u60f3", "u5403", "u996d">> :> Intent(<<"f", "i", "n", "d", "_", "d", "i", "n", "i", "n", "g">>,
            << <<"u9910", "u5385">>, <<"u98df", "u5802">>, <<"c", "a", "n", "t", "e", "e", "n">>, <<"r", "e", "s", "t", "a", "u", "r", "a", "n", "t">>, <<"d", "i", "n", "i", "n", "g">>, <<"c", "a", "f", "e">>, <<"u5496", "u5561">>,
               <<"u7f8e", "u98df">>, <<"u5403", "u996d">> >>, <<"f", "a", "c", "i", "l", "i", "t", "y">>, None))
    @@ (<<"u6211", "u8981", "u5b66", "u4e60">> :> Intent(<<"f", "i", "n", "d", "_", "s", "t", "u", "d", "y", "_", "s", "p", "a", "c", "e">>,
            << <<"u56fe", "u4e66", "u9986">>, <<"l", "i", "b", "r", "a", "r", "y">>, <<"s", "t", "u", "d", "y">>, <<"u81ea", "u4e60", "u5ba4">>, <<"u5b66", "u4e60">>, <<"u9605", "u89c8", "u5ba4">>,
               <<"r", "e", "a", "d", "i", "n", "g", " ", "r", "o", "o", "m">> >>, <<"f", "a", "c", "i", "l", "i", "t", "y">>, None))
    @@ (<<"u6211", "u60f3", "u8fd0", "u52a8">> :> SportsSeed)
    @@ (<<"u54ea", "u91cc", "u53ef", "u4ee5", "u505c", "u8f66">> :> Intent(<<"f", "i", "n", "d", "_", "p", "a", "r", "k", "i", "n", "g">>,
            << <<"p", "a", "r", "k", "i", "n", "g">>, <<"u505c", "u8f66">>, <<"u6cca", "u8f66">>, <<"c", "a", "r", " ", "p", "a", "r", "k">> >>, <<"f", "a", "c", "i", "l", "i", "t", "y">>, None))
    @@ (<<"u5b66", "u6821", "u6709", "u94f6", "u884c", "u5417">> :> BankSeed)
    @@ (<<"u5b66", "u6821", "u91cc", "u6709", "u4ec0", "u4e48", "b", "a", "n", "k">> :> BankSeed)

\* The rule table of fallback_intent_extraction, in the order of its if statements
Rule(triggers, intent, keywords, subcategory) ==
    [triggers |-> triggers, record |-> Intent(intent, keywords, <<"f", "a", "c", "i", "l", "i", "t", "y">>, subcategory)]

FallbackRules == <<
    Rule(<< <<"u8fd0", "u52a8">>, <<"s", "p", "o", "r", "t">>, <<"g", "y", "m">>, <<"u5065", "u8eab">>, <<"u6e38", "u6cf3">>, <<"u7fbd", "u6bdb", "u7403">>, <<"u7bee", "u7403">>, <<"u8dd1", "u6b65">> >>,
         <<"f", "i", "n", "d", "_", "s", "p", "o", "r", "t", "s", "_", "f", "a", "c", "i", "l", "i", "t", "y">>,
         << <<"u8fd0", "u52a8">>, <<"u4f53", "u80b2">>, <<"s", "p", "o", "r", "t", "s">>, <<"g", "y", "m">>, <<"f", "i", "t", "n", "e", "s", "s">>, <<"s", "w", "i", "m", "m", "i", "n", "g">>, <<"u6e38", "u6cf3">>,
            <<"s", "p", "o", "r", "t", " ", "c", "e", "n", "t", "r", "e">>, <<"s", "p", "o", "r", "t", "s", " ", "g", "r", "o", "u", "n", "d">> >>, None),
    Rule(<< <<"u4f11", "u606f">>, <<"r", "e", "s", "t">>, <<"u5ea7", "u4f4d">>, <<"l", "o", "u", "n", "g", "e">>, <<"u5750">>, <<"s", "i", "t", "t", "i", "n", "g">>, <<"r", "e", "l", "a", "x">> >>,
         <<"f", "i", "n", "d", "_", "r", "e", "s", "t", "_", "a", "r", "e", "a">>,
         << <<"u4f11", "u606f">>, <<"r", "e", "s", "t">>, <<"l", "o", "u", "n", "g", "e">>, <<"u4f11", "u606f", "u5ba4">>, <<"c", "o", "m", "m", "o", "n", " ", "r", "o", "o", "m">>, <<"u5ea7", "u4f4d">>, <<"s", "i", "t", "t", "i", "n", "g", " ", "a", "r", "e", "a">>,
            <<"s", "t", "u", "d", "e", "n", "t", " ", "l", "o", "u", "n", "g", "e">> >>, None),
    Rule(<< <<"u5403">>, <<"u996d">>, <<"u9910">>, <<"c", "a", "n", "t", "e", "e", "n">>, <<"r", "e", "s", "t", "a", "u", "r", "a", "n", "t">>, <<"c", "a", "f", "e">>, <<"u5496", "u5561">>, <<"u98df", "u5802">> >>,
         <<"f", "i", "n", "d", "_", "d", "i", "n", "i", "n", "g">>,
         << <<"u9910", "u5385">>, <<"u98df", "u5802">>, <<"c", "a", "n", "t", "e", "e", "n">>, <<"r", "e", "s", "t", "a", "u", "r", "a", "n", "t">>, <<"d", "i", "n", "i", "n", "g">>, <<"c", "a", "f", "e">>, <<"u5496", "u5561">>,
            <<"c", "o", "f", "f", "e", "e">>, <<"c", "a", "t", "e", "r", "i", "n", "g">> >>, <<"C", "a", "t", "e", "r", "i", "n", "g", " ", "O", "u", "t", "l", "e", "t", "s">>),
    Rule(<< <<"u5b66", "u4e60">>, <<"u81ea", "u4e60">>, <<"s", "t", "u", "d", "y">>, <<"l", "i", "b", "r", "a", "r", "y">>, <<"u56fe", "u4e66">>, <<"u8bfb", "u4e66">> >>,
         <<"f", "i", "n", "d", "_", "s", "t", "u", "d", "y", "_", "s", "p", "a", "c", "e">>,
         << <<"u56fe", "u4e66", "u9986">>, <<"l", "i", "b", "r", "a", "r", "y">>, <<"s", "t", "u", "d", "y">>, <<"u81ea", "u4e60", "u5ba4">>, <<"r", "e", "a", "d", "i", "n", "g", " ", "r", "o", "o", "m">>, <<"u5b66", "u4e60", "u7a7a", "u95f4">> >>,
         <<"L", "i", "b", "r", "a", "r", "i", "e", "s">>),
    Rule(<< <<"u533b">>, <<"h", "e", "a", "l", "t", "h">>, <<"c", "l", "i", "n", "i", "c">>, <<"u533b", "u7597">>, <<"u8bca", "u6240">>, <<"u770b", "u75c5">> >>,
         <<"f", "i", "n", "d", "_", "h", "e", "a", "l", "t", "h", "_", "s", "e", "r", "v", "i", "c", "e">>,
         << <<"h", "e", "a", "l", "t", "h">>, <<"c", "l", "i", "n", "i", "c">>, <<"m", "e", "d", "i", "c", "a", "l">>, <<"u533b", "u7597">>, <<"u8bca", "u6240">>, <<"h", "e", "a", "l", "t", "h", " ", "c", "e", "n", "t", "r", "e">>, <<"d", "e", "n", "t", "a", "l">>,
            <<"m", "e", "d", "i", "c", "a", "l", " ", "u", "n", "i", "t">> >>, <<"H", "e", "a", "l", "t", "h", " ", "S", "e", "r", "v", "i", "c", "e", "s">>),
    Rule(<< <<"u6253", "u5370">>, <<"p", "r", "i", "n", "t">>, <<"u590d", "u5370">>, <<"c", "o", "p", "y">> >>,
         <<"f", "i", "n", "d", "_", "p", "r", "i", "n", "t", "i", "n", "g">>,
         << <<"p", "r", "i", "n", "t">>, <<"u6253", "u5370">>, <<"p", "r", "i", "n", "t", "i", "n", "g">>, <<"c", "o", "p", "y">>, <<"u590d", "u5370">>, <<"c", "o", "m", "p", "u", "t", "e", "r">>, <<"c", "o", "m", "p", "u", "t", "i", "n", "g">> >>,
         <<"C", "o", "m", "p", "u", "t", "i", "n", "g", " ", "S", "e", "r", "v", "i", "c", "e", "s">>),
    Rule(<< <<"u505c", "u8f66">>, <<"p", "a", "r", "k", "i", "n", "g">>, <<"u6cca", "u8f66">>, <<"p", "a", "r", "k">>, <<"u8f66", "u4f4d">> >>,
         <<"f", "i", "n", "d", "_", "p", "a", "r", "k", "i", "n", "g">>,
         << <<"p", "a", "r", "k", "i", "n", "g">>, <<"u505c", "u8f66">>, <<"u6cca", "u8f66">>, <<"c", "a", "r", " ", "p", "a", "r", "k">> >>, <<"P", "a", "r", "k", "i", "n", "g">>),
    Rule(<< <<"u6e38", "u6cf3">>, <<"s", "w", "i", "m", "m", "i", "n", "g">>, <<"p", "o", "o", "l">>, <<"u6e38", "u6cf3", "u6c60">> >>,
         <<"f", "i", "n", "d", "_", "s", "w", "i", "m", "m", "i", "n", "g">>,
         << <<"s", "w", "i", "m", "m", "i", "n", "g">>, <<"u6e38", "u6cf3">>, <<"p", "o", "o", "l">>, <<"u6e38", "u6cf3", "u6c60">> >>, <<"S", "p", "o", "r", "t", "s">>),
    Rule(<< <<"u5395", "u6240">>, <<"t", "o", "i", "l", "e", "t">>, <<"w", "a", "s", "h", "r", "o", "o", "m">>, <<"r", "e", "s", "t", "r", "o", "o", "m">>, <<"u6d17", "u624b", "u95f4">>, <<"u536b", "u751f", "u95f4">> >>,
         <<"f", "i", "n", "d", "_", "t", "o", "i", "l", "e", "t">>,
         << <<"t", "o", "i", "l", "e", "t">>, <<"u5395", "u6240">>, <<"w", "a", "s", "h", "r", "o", "o", "m">>, <<"r", "e", "s", "t", "r", "o", "o", "m">>, <<"u6d17", "u624b", "u95f4">> >>, None),
    Rule(<< <<"u94f6", "u884c">>, <<"b", "a", "n", "k">>, <<"a", "t", "m">>, <<"u53d6", "u94b1">>, <<"u5b58", "u94b1">> >>,
         <<"f", "i", "n", "d", "_", "b", "a", "n", "k">>,
         << <<"b", "a", "n", "k">>, <<"u94f6", "u884c">>, <<"b", "a", "n", "k", "i", "n", "g">>, <<"a", "t", "m">> >>, <<"B", "a", "n", "k", "i", "n", "g", " ", "S", "e", "r", "v", "i", "c", "e", "s">>) >>

\* str.replace(ch, "")
Without(s, ch) == SelectSeq(s, LAMBDA c : c # ch)

\* the rules one of whose triggers is part of ql
Firing(rules, ql) ==
    {r \in DOMAIN rules : \E t \in DOMAIN rules[r].triggers : Contains(ql, rules[r].triggers[t])}

\* the record of the default (lines 421-425)
Unknown(query) ==
    Intent(<<"u", "n", "k", "n", "o", "w", "n">>, << query, Strip(Without(Without(query, "uff1f"), "?")) >>,
           <<"f", "a", "c", "i", "l", "i", "t", "y">>, None)

\* variant of FirstRule: the last rule that fires
LastRule(rules, fires, otherwise) ==
    IF fires # {} THEN rules[CHOOSE r \in fires : \A s \in fires : s <= r].record ELSE otherwise

FirstRule(rules, fires, otherwise) ==
    IF fires # {} THEN rules[Min(fires)].record ELSE otherwise

RuleOrDefault(rules, query) == FirstRule(rules, Firing(rules, Lower(query)), Unknown(query))

\* variant of fallback_intent_extraction: no rule, the default record
fallback_without_rules(query) == Unknown(query)

fallback_intent_extraction(query) == RuleOrDefault(FallbackRules, query)

\* The oracle (ChatGLM._call) answers one call with a text. What the extractor makes
\* of it depends on its kind alone: "empty" (an empty or blank text, which is also what
\* _call returns on a timeout, a transport error or an API error), "text" (no JSON),
\* "raise" (the call raises) and "json" (a JSON object, fenced or not, with the fields
\* of data; a key the object lacks is None, and keywords << >> when missing or empty).
Reply(kind, data) == [kind |-> kind, data |-> data]

NoData == Intent(None, << >>, None, None)

Silent   == Reply("empty", NoData)
Chatty   == Reply("text", NoData)
Broken   == Reply("raise", NoData)
Wordless == Reply("json", Intent(<<"f", "i", "n", "d", "_", "p", "l", "a", "c", "e">>, << >>, <<"b", "u", "i", "l", "d", "i", "n", "g">>, None))

\* The phrases the oracle has a usable answer for, and that answer
OracleKnows ==
       (<<"g", "y">>  :> Reply("json", Intent(<<"f", "i", "n", "d", "_", "g", "y", "m">>, << <<"g", "y", "m">>, <<"f", "i", "t", "n", "e", "s", "s">> >>, <<"s", "p", "o", "r", "t">>, <<"S", "p", "o", "r", "t", "s">>)))
    @@ (<<"c", "a", "f">> :> Reply("json", Intent(None, << <<"c", "a", "f", "e">>, <<"o">>, <<"w">> >>, <<"b", "u", "i", "l", "d", "i", "n", "g">>, None)))

\* What the oracle may answer to the calls of one extraction, oracle[n] to the n-th:
\* it may fail twice, in each of its ways, and answer a phrase it knows at once or
\* on the second call.
OracleAnswers(query) ==
    { << Silent, Chatty >>, << Broken, Wordless >> }
    \cup (IF Strip(query) \in DOMAIN OracleKnows
          THEN { << OracleKnows[Strip(query)], Silent >>, << Chatty, OracleKnows[Strip(query)] >> }
          ELSE { })

\* What the oracle may answer to one call in the course of concurrent extractions:
\* any of its failures, the usable answer it has for the phrase, and - its sampling
\* temperature is 0.5 - another usable answer to the same phrase.
OracleAlso ==
    (<<"g", "y">> :> Reply("json", Intent(<<"f", "i", "n", "d", "_", "s", "p", "o", "r", "t", "s">>, << <<"g", "y", "m">>, <<"s", "p", "o", "r", "t", "s">> >>, None, None)))

OracleReplies(query) ==
    { Silent, Chatty, Broken, Wordless }
    \cup (IF Strip(query) \in DOMAIN OracleKnows THEN { OracleKnows[Strip(query)] } ELSE { })
    \cup (IF Strip(query) \in DOMAIN OracleAlso THEN { OracleAlso[Strip(query)] } ELSE { })

\* variant of max_retries: one pass more
max_retries_plus_one == 2 + 1

max_retries == 2

HINTS == { <<"b", "u", "i", "l", "d", "i", "n", "g">>, <<"d", "e", "p", "a", "r", "t", "m", "e", "n", "t">>, <<"f", "a", "c", "i", "l", "i", "t", "y">> }

\* lines 271-293: the answer is not empty, parses as JSON and has keywords
Usable(raw) == raw.kind = "json" /\ raw.data.keywords # << >>

\* variant of Built: the subcategory of the answer is kept
Built_with_subcategory(data) ==
    Intent(IF data.intent = None THEN <<"u", "n", "k", "n", "o", "w", "n">> ELSE data.intent,
           data.keywords,
           IF data.category_hint \in HINTS THEN data.category_hint ELSE <<"f", "a", "c", "i", "l", "i", "t", "y">>,
           data.subcategory)

\* variant of Built: the category hint is the answer's
Built_as_answered(data) ==
    Intent(IF data.intent = None THEN <<"u", "n", "k", "n", "o", "w", "n">> ELSE data.intent,
           data.keywords, data.category_hint, None)

\* lines 298-305: the record made of a usable answer
Built(data) ==
    Intent(IF data.intent = None THEN <<"u", "n", "k", "n", "o", "w", "n">> ELSE data.intent,
           data.keywords,
           IF data.category_hint \in HINTS THEN data.category_hint ELSE <<"f", "a", "c", "i", "l", "i", "t", "y">>,
           None)

\* variant of Cached: the key is the query as typed
Cached_as_typed(cache, query, result) == (query :> result) @@ cache

\* line 308: INTENT_CACHE[query.strip()] = result
Cached(cache, query, result) == (Strip(query) :> result) @@ cache

\* The retry loop from its pass `attempt`, counted from 0 as range(max_retries) does
RECURSIVE Attempts(_, _, _)
Attempts(query, oracle, attempt) ==
    IF attempt >= max_retries
    THEN [result |-> fallback_intent_extraction(query), via |-> "fallback",
          calls |-> attempt, cache |-> INTENT_CACHE]
    ELSE IF Usable(oracle[attempt + 1])
    THEN [result |-> Built(oracle[attempt + 1].data), via |-> "oracle", calls |-> attempt + 1,
          cache |-> Cached(INTENT_CACHE, query, Built(oracle[attempt + 1].data))]
    ELSE Attempts(query, oracle, attempt + 1)

\* extract_intent_with_llm given the oracle's answers
Extract(query, oracle) ==
    IF Strip(query) \in DOMAIN INTENT_CACHE
    THEN [result |-> INTENT_CACHE[Strip(query)], via |-> "cache", calls |-> 0,
          cache |-> INTENT_CACHE]
    ELSE Attempts(query, oracle, 0)

\* every way a call of extract_intent_with_llm can go
extract_intent_with_llm(query) == { Extract(query, oracle) : oracle \in OracleAnswers(query) }

----------------------------------------------------------------------------
(* search_by_keywords; a result is <<name, category, matched keyword>> *)

Names(results) == {results[i][1] : i \in DOMAIN results}

\* the loop over one subcategory bucket (lines 441-446)
RECURSIVE BucketResults(_, _, _)
BucketResults(items, keyword, results) ==
    IF items = << >> THEN results
    ELSE BucketResults(Tail(items), keyword,
            IF Head(items).name \in Names(results) THEN results
            ELSE Append(results, << Head(items).name, <<"f", "a", "c", "i", "l", "i", "t", "y">>, keyword >>))

\* The loops of lines 453-479 visit the pairs (keyword, entity) keyword by keyword,
\* each keyword over the catalog in scan order. A pair appends its entity when the
\* keyword, lower-cased and stripped, is not empty and is part of the name or of an
\* alias, and no earlier pair appended an entity of that name (the set `seen`).
Hit(item, kw_lower) ==
    /\ kw_lower # << >>
    /\ \/ Contains(Lower(item.name), kw_lower)
       \/ \E a \in DOMAIN item.aliases : Contains(Lower(item.aliases[a]), kw_lower)

Hits(listing, keywords) ==
    {p \in (DOMAIN keywords) \X (DOMAIN listing) :
        Hit(listing[p[2]].item, Strip(Lower(keywords[p[1]])))}

Before(r, p) == r[1] < p[1] \/ (r[1] = p[1] /\ r[2] < p[2])

\* variant of Appended: every pair appends its entity
Appended_again(listing, hits) == hits

Appended(listing, hits) ==
    {p \in hits : ~ \E r \in hits :
        Before(r, p) /\ listing[r[2]].item.name = listing[p[2]].item.name}

InOrder(listing, keywords, appended) ==
    [n \in 1..Cardinality(appended) |->
        LET p == CHOOSE p \in appended : Cardinality({r \in appended : Before(r, p)}) + 1 = n
        IN  << listing[p[2]].item.name, listing[p[2]].cat, keywords[p[1]] >>]

GeneralSearch(listing, keywords) ==
    InOrder(listing, keywords, Appended(listing, Hits(listing, keywords)))

\* variant of OrElse: the general search whatever the bucket gave
OrElse_general(results, general) == general

\* `if results: return results` (line 449), else the general search
OrElse(results, general) == IF results # << >> THEN results ELSE general

search_by_keywords(keywords, subcategory) ==
    OrElse(IF subcategory # None /\ subcategory # << >> /\ DOMAIN FACILITIES # {}
           THEN BucketResults(Get(Get(FACILITIES, "subcategory", << >>), subcategory, << >>),
                              IF keywords # << >> THEN keywords[1] ELSE << >>, << >>)
           ELSE << >>,
           GeneralSearch(Listing(ENTITIES), keywords))

----------------------------------------------------------------------------
(* Texts returned to the caller. `text` is the text up to its first interpolated  *)
(* value; the values that follow it are kept in the other fields.                 *)

Message(kind, text, name, category, content) ==
    [kind |-> kind, text |-> text, name |-> name, category |-> category, content |-> content]

\* f"✓ 已为您找到：{name}（{category}）"
Found(name, category) == Message("found", <<"u2713", " ", "u5df2", "u4e3a", "u60a8", "u627e", "u5230", "uff1a">>, name, category, << >>)

\* f"⚠ 词表中有 {name}，但地图未能定位"
InVocabularyNotLocated(name) == Message("in_vocabulary_not_located", <<"u26a0", " ", "u8bcd", "u8868", "u4e2d", "u6709", " ">>, name, None, << >>)

\* f"⚠ 抱歉，未能在地图上定位到 {name}"
NotLocated(name) == Message("not_located", <<"u26a0", " ", "u62b1", "u6b49", "uff0c", "u672a", "u80fd", "u5728", "u5730", "u56fe", "u4e0a", "u5b9a", "u4f4d", "u5230", " ">>, name, None, << >>)

\* "好的，请重新描述您要找的地点。"
Rejected == Message("rejected", <<"u597d", "u7684", "uff0c", "u8bf7", "u91cd", "u65b0", "u63cf", "u8ff0", "u60a8", "u8981", "u627e", "u7684", "u5730", "u70b9", "u3002">>, None, None, << >>)

\* json.dumps({"type": type, "content": content}, ensure_ascii=False)
JsonDumps(kind, type, content) ==
    Message(kind, <<"{", "\"", "t", "y", "p", "e", "\"", ":", " ", "\"">> \o type \o <<"\"", ",", " ", "\"", "c", "o", "n", "t", "e", "n", "t", "\"", ":", " ">>, None, None, content)

\* the two menus of handle_user_query (lines 862 and 880)
KeywordMenu(q, content) == Message("keyword_menu", <<"u1f50d", " ", "u6839", "u636e", "u60a8", "u7684", "u9700", "u6c42", "u300c">>, None, None, content)
SimilarityMenu(content) == Message("similarity_menu", <<"u672a", "u627e", "u5230", "u5b8c", "u5168", "u5339", "u914d", "u7684", "u7ed3", "u679c", "uff0c", "u4ee5", "u4e0b", "u662f", "u6700", "u63a5", "u8fd1", "u7684", "u9009", "u9879", "uff1a", "\\", "n">>, None, None, content)

\* an entry of "content": the keyword entries have no "score" computed (0.75) and the
\* similarity entries no "matched_keyword" and no "subcategory" key
Info(name, category, matched_keyword, score, subcategory) ==
    [name |-> name, category |-> category, matched_keyword |-> matched_keyword,
     score |-> score, subcategory |-> subcategory]

KEYWORD_SCORE  == Score(75, 100)
HIGH_THRESHOLD == Score(6, 10)
LOW_THRESHOLD  == Score(3, 10)
\* variants: the length limit and the cap of the keyword menu, each one larger
SHORT_QUERY_plus_one    == 15 + 1
MAX_CANDIDATES_plus_one == 5 + 1

SHORT_QUERY    == 15
MAX_CANDIDATES == 5
TOP_N          == 3

----------------------------------------------------------------------------
(* tool_query_location: every way a call can go. The map answers each call of      *)
(* MAP.query_location_with_candidates with success or failure and the oracle each  *)
(* call as OracleAnswers says. Besides the text returned, a way records what ran.  *)

NavCall(name, category, subcategory, ok) ==
    [name |-> name, category |-> category, subcategory |-> subcategory, ok |-> ok]

\* history: a call of the extractor (`ex`) together with what the keyword search
\* returned for its record
Sought(ex, search_results) ==
    [result |-> ex.result, via |-> ex.via, calls |-> ex.calls, cache |-> ex.cache,
     found |-> search_results]

NoExtract ==
    [result |-> NoData, via |-> "none", calls |-> 0, cache |-> INTENT_CACHE, found |-> << >>]

Ran(message, method, steps, nav_calls, ex) ==
    [message |-> message, method |-> method, steps |-> steps, nav_calls |-> nav_calls,
     via |-> ex.via, oracle_calls |-> ex.calls, cache |-> ex.cache,
     intent |-> ex.result, found |-> ex.found]

\* variant of AskOrGiveUp: the answer that nothing was found
GiveUp(matches, steps, nav_calls, ex) ==
    Ran(JsonDumps("location", <<"l", "o", "c", "a", "t", "i", "o", "n">>, << >>), "none", steps, nav_calls, ex)

\* lines 794-805: the similarity menu, or the answer that nothing was found
AskOrGiveUp(matches, steps, nav_calls, ex) ==
    IF matches # << >> /\ Greater(matches[1][3], LOW_THRESHOLD)
    THEN Ran(JsonDumps("location_confirm", <<"l", "o", "c", "a", "t", "i", "o", "n", "_", "c", "o", "n", "f", "i", "r", "m">>,
                 [i \in DOMAIN matches |->
                     Info(matches[i][1], matches[i][2], None, matches[i][3], None)]),
             "similarity", steps, nav_calls, ex)
    ELSE Ran(JsonDumps("location", <<"l", "o", "c", "a", "t", "i", "o", "n">>, << >>), "none", steps, nav_calls, ex)

\* lines 787-805 on the list `matches` of find_best_matches
Ranked(matches, steps, nav_calls, ex) ==
    IF matches # << >> /\ Greater(matches[1][3], HIGH_THRESHOLD)
    THEN { Ran(Found(matches[1][1], matches[1][2]), "similarity", steps \o << "navigate" >>,
               nav_calls \o << NavCall(matches[1][1], matches[1][2], None, TRUE) >>, ex),
           AskOrGiveUp(matches, steps \o << "navigate" >>,
                       nav_calls \o << NavCall(matches[1][1], matches[1][2], None, FALSE) >>, ex) }
    ELSE { AskOrGiveUp(matches, steps, nav_calls, ex) }

\* steps 4 to 6 (lines 786-805), after the steps and map calls so far
BySimilarity(q, steps, nav_calls, ex) ==
    Ranked(find_best_matches(q, TOP_N), steps \o << "similarity" >>, nav_calls, ex)

\* lines 762-767: the results of the hinted category, all results when there is none,
\* and at most MAX_CANDIDATES of them
Capped(filtered) == SubSeq(filtered, 1, Min({MAX_CANDIDATES, Len(filtered)}))

Filtered(by_hint, search_results) == IF by_hint = << >> THEN search_results ELSE by_hint

OfCategory(search_results, category_hint) ==
    Capped(Filtered(SelectSeq(search_results, LAMBDA r : r[2] = category_hint), search_results))

\* lines 770-783: the keyword menu
Offered(filtered, steps, nav_calls, ex) ==
    Ran(JsonDumps("location_candidates", <<"l", "o", "c", "a", "t", "i", "o", "n", "_", "c", "a", "n", "d", "i", "d", "a", "t", "e", "s">>,
            [i \in DOMAIN filtered |->
                Info(filtered[i][1], filtered[i][2], filtered[i][3],
                     KEYWORD_SCORE, ex.result.subcategory)]),
        "keyword", steps, nav_calls, ex)

\* Step 3 (lines 751-783): a way that ended with the keyword menu is `done`; a way that
\* left the step without one, or never entered it, goes on to the similarity ranking.
Pass(done, ran, steps, ex) == [done |-> done, ran |-> ran, steps |-> steps, ex |-> ex]

Searched(search_results, steps, nav_calls, ex) ==
    IF search_results # << >>
    THEN Pass(TRUE, Offered(OfCategory(search_results, ex.result.category_hint),
                            steps, nav_calls, Sought(ex, search_results)),
              steps, Sought(ex, search_results))
    ELSE Pass(FALSE, Ran(Rejected, "none", steps, nav_calls, Sought(ex, search_results)),
              steps, Sought(ex, search_results))

ByKeywords(q, steps, nav_calls) ==
    IF Len(Strip(q)) < SHORT_QUERY /\ ~ \E i \in DOMAIN q : IsDigit(q[i])
    THEN { Searched(search_by_keywords(ex.result.keywords, ex.result.subcategory),
                    steps \o << "extract", "keywords" >>, nav_calls, ex)
             : ex \in extract_intent_with_llm(q) }
    ELSE { Pass(FALSE, Ran(Rejected, "none", steps, nav_calls, NoExtract), steps, NoExtract) }

\* steps 3 to 6 after the fuzzy step's map call, if it made one
Later(q, steps, nav_calls) ==
    UNION { IF pass.done THEN { pass.ran } ELSE BySimilarity(q, pass.steps, nav_calls, pass.ex)
              : pass \in ByKeywords(q, steps, nav_calls) }

\* variant of Exactly: when the map fails the later steps run on the name found
Exactly_then_later(local_hit) ==
    { Ran(Found(local_hit[1], local_hit[2]), "exact", << "exact", "navigate" >>,
          << NavCall(local_hit[1], local_hit[2], None, TRUE) >>, NoExtract) }
    \cup Later(local_hit[1], << "exact", "navigate" >>,
               << NavCall(local_hit[1], local_hit[2], None, FALSE) >>)

\* step 1 (lines 732-739)
Exactly(local_hit) ==
    { Ran(Found(local_hit[1], local_hit[2]), "exact", << "exact", "navigate" >>,
          << NavCall(local_hit[1], local_hit[2], None, TRUE) >>, NoExtract),
      Ran(InVocabularyNotLocated(local_hit[1]), "exact", << "exact", "navigate" >>,
          << NavCall(local_hit[1], local_hit[2], None, FALSE) >>, NoExtract) }

\* step 2 (lines 742-747): the steps taken and the map calls made when it is over
FuzzySteps(fuzzy_hit) ==
    IF fuzzy_hit # NoHit THEN << "exact", "fuzzy", "navigate" >> ELSE << "exact", "fuzzy" >>

FuzzyCalls(fuzzy_hit, ok) ==
    IF fuzzy_hit # NoHit THEN << NavCall(fuzzy_hit[1], fuzzy_hit[2], None, ok) >> ELSE << >>

\* variant of Fuzzily: the fuzzy step is skipped
Fuzzily_skipped(q, fuzzy_hit) == Later(q, << "exact", "fuzzy" >>, << >>)

\* step 2 and what follows it when the step found nothing or the map did not locate it
Fuzzily(q, fuzzy_hit) ==
    (IF fuzzy_hit # NoHit
     THEN { Ran(Found(fuzzy_hit[1], fuzzy_hit[2]), "fuzzy", FuzzySteps(fuzzy_hit),
                FuzzyCalls(fuzzy_hit, TRUE), NoExtract) }
     ELSE { })
    \cup Later(q, FuzzySteps(fuzzy_hit), FuzzyCalls(fuzzy_hit, FALSE))

Resolved(q, local_hit) ==
    IF local_hit # NoHit THEN Exactly(local_hit) ELSE Fuzzily(q, local_match_fuzzy(q))

tool_query_location(q) == Resolved(q, local_match_exact(q))

----------------------------------------------------------------------------
(* handle_user_query *)

EmptySlot == [candidates |-> << >>, query |-> << >>, subcategory |-> None]

\* variants: the confirmations with the English word added, the rejections without "0"
CONFIRM_WORDS_with_confirm == { <<"u662f">>, <<"y", "e", "s">>, <<"u5bf9">>, <<"y">>, <<"u786e", "u8ba4">>, <<"1">>, <<"c", "o", "n", "f", "i", "r", "m">> }
REJECT_WORDS_without_zero  == { <<"u5426">>, <<"n", "o">>, <<"u4e0d", "u662f">>, <<"n">> }

CONFIRM_WORDS == { <<"u662f">>, <<"y", "e", "s">>, <<"u5bf9">>, <<"y">>, <<"u786e", "u8ba4">>, <<"1">> }
REJECT_WORDS  == { <<"u5426">>, <<"n", "o">>, <<"u4e0d", "u662f">>, <<"n">>, <<"0">> }
OTHER_CHOICES == { <<"2">>, <<"3">>, <<"4">>, <<"5">> }

LLM_RESULTS  == <<"L", "L", "M", "_", "R", "E", "S", "U", "L", "T", "S", ":">>
NEED_CONFIRM == <<"N", "E", "E", "D", "_", "C", "O", "N", "F", "I", "R", "M", ":">>

NoRun == [message |-> Rejected, method |-> "none", steps |-> << >>, nav_calls |-> << >>,
          via |-> "none", oracle_calls |-> 0, cache |-> INTENT_CACHE,
          intent |-> NoData, found |-> << >>]

\* [(c["name"], c["category"], c["score"]) for c in candidates_info]
Stored(content) == [i \in DOMAIN content |-> << content[i].name, content[i].category, content[i].score >>]

Handled(route, response, slot, selected, nav_calls, resolved, ran) ==
    [route |-> route, response |-> response, slot |-> slot, selected |-> selected,
     nav_calls |-> nav_calls, resolved |-> resolved, ran |-> ran]

\* variant of Select: the index is used as typed, counting the candidates from 1
Select_from_one(route, idx) ==
    LET cand == pending_confirmation.candidates[IF idx = 0 THEN 1 ELSE idx]
        Asked(ok) == << NavCall(cand[1], cand[2], pending_confirmation.subcategory, ok) >>
    IN  { Handled(route, Found(cand[1], cand[2]), EmptySlot, cand, Asked(TRUE), << >>, NoRun),
          Handled(route, NotLocated(cand[1]), EmptySlot, cand, Asked(FALSE), << >>, NoRun) }

\* variant of Select: the slot is emptied when the map has located the candidate
Select_then_empty(route, idx) ==
    LET cand == pending_confirmation.candidates[idx + 1]
        Asked(ok) == << NavCall(cand[1], cand[2], pending_confirmation.subcategory, ok) >>
    IN  { Handled(route, Found(cand[1], cand[2]), EmptySlot, cand, Asked(TRUE), << >>, NoRun),
          Handled(route, NotLocated(cand[1]), pending_confirmation, cand, Asked(FALSE), << >>,
                  NoRun) }

\* lines 818-824 and 835-841: candidate idx (from 0) is taken, the slot is emptied,
\* and only then the map is asked
Select(route, idx) ==
    LET cand == pending_confirmation.candidates[idx + 1]
        Asked(ok) == << NavCall(cand[1], cand[2], pending_confirmation.subcategory, ok) >>
    IN  { Handled(route, Found(cand[1], cand[2]), EmptySlot, cand, Asked(TRUE), << >>, NoRun),
          Handled(route, NotLocated(cand[1]), EmptySlot, cand, Asked(FALSE), << >>, NoRun) }

\* lines 852-854: the slot after a keyword menu was stored over `slot`
StoreKeywordMenu(slot, q, content) ==
    [candidates  |-> Stored(content), query |-> q,
     subcategory |-> IF content # << >> THEN content[1].subcategory ELSE None]

\* lines 870-871: the slot after a similarity menu was stored over `slot`
StoreSimilarityMenu(slot, q, content) ==
    [slot EXCEPT !.candidates = Stored(content), !.query = q]

\* variant of Read: a fresh query drops the menu that was pending
Read_and_forget(q, ran) ==
    Handled("resolve", ran.message, EmptySlot, << >>, ran.nav_calls, << q >>, ran)

\* lines 847-884: what handle_user_query makes of the text of tool_query_location
Read(q, ran) ==
    LET result == ran.message
    IN  IF StartsWith(result.text, LLM_RESULTS)
        THEN Handled("resolve", KeywordMenu(q, result.content),
                     StoreKeywordMenu(pending_confirmation, q, result.content),
                     << >>, ran.nav_calls, << q >>, ran)
        ELSE IF StartsWith(result.text, NEED_CONFIRM)
        THEN Handled("resolve", SimilarityMenu(result.content),
                     StoreSimilarityMenu(pending_confirmation, q, result.content),
                     << >>, ran.nav_calls, << q >>, ran)
        ELSE Handled("resolve", result, pending_confirmation, << >>, ran.nav_calls, << q >>, ran)

\* every way a call of handle_user_query can go
handle_user_query(q) ==
    IF pending_confirmation.candidates # << >> /\ Strip(Lower(q)) \in CONFIRM_WORDS
    THEN Select("confirm", 0)
    ELSE IF pending_confirmation.candidates # << >> /\ Strip(Lower(q)) \in REJECT_WORDS
    THEN { Handled("reject", Rejected, EmptySlot, << >>, << >>, << >>, NoRun) }
    ELSE IF /\ pending_confirmation.candidates # << >>
            /\ Strip(q) \in OTHER_CHOICES
            /\ DigitValue(Strip(q)[1]) - 1 < Len(pending_confirmation.candidates)
    THEN Select("choose", DigitValue(Strip(q)[1]) - 1)
    ELSE { Read(q, ran) : ran \in tool_query_location(q) }

----------------------------------------------------------------------------
(* The conversations and what they type *)

NumSessions == 2
Sessions    == 1..NumSessions
NoSession   == 0

\* the request threads of the server, each with at most one call of
\* extract_intent_with_llm in progress
NumThreads == 2
Threads    == 1..NumThreads

\* no answer of the oracle yet
NoReply == Reply("none", NoData)

\* a thread that has not called extract_intent_with_llm
NoCall ==
    [pc |-> "idle", query |-> << >>, calls |-> 0, raw |-> NoReply, result |-> NoData,
     via |-> "none"]

\* what the users type when nothing is pending
Queries == {
    <<"L", "i", "b", "r", "a", "r", "y">>, <<"L", "I", "B", " ">>, <<"l", "i", "b">>, <<"m", "u", "s", "i", "c">>, <<"m", "u", "s", "i", "c", " ", "r", "o", "o", "m">>, <<"w", "h", "e", "r", "e", " ", "i", "s", " ", "k", "b">>,
    <<"g", "y">>, <<"s", "w", "i", "m">>, <<"s", "w", "i", "m", "m", "i", "n", "g">>, <<"c", "a", "f">>, <<"c", "a", "f", "e">>, <<"u54ea", "u91cc", "u53ef", "u4ee5", "u505c", "u8f66">>,
    <<"k", "n", "o", "w", "l", "e", "5">>, <<"k", "n", "0", "w">>, <<"l", "4", "a", "5", "w", "6", "7">>, <<"l", "1", "a", "1", "w", "1", "1", "1", "1", "1", "1", "1", "1", "1", "1", "1", "1">>, <<"9">>, <<"y", "e", "s">>, <<"?">>,
    <<"z", "z", "z", "z", "z", "z", "z", "z", "z", "z", "z", "z", "z", "z">>, <<"z", "z", "z", "z", "z", "z", "z", "z", "z", "z", "z", "z", "z", "z", "z">>, <<" ", "z", "z", "z", "z", "z", "z", "z", "z", "z", "z", "z", "z", "z", "z", " ", " ">> }

\* what they type in answer to a menu
Replies == {
    <<"y", "e", "s">>, <<" ", "Y", "E", "S", " ">>, <<"u786e", "u8ba4">>, <<"1">>, <<"2">>, <<"3">>, <<"4">>, <<"5">>, <<"6">>,
    <<"n", "o">>, <<"u5426">>, <<"0">>, <<"c", "o", "n", "f", "i", "r", "m">>, <<"c", "a", "n", "c", "e", "l">> }

----------------------------------------------------------------------------
(* The state machine *)

NoTurn ==
    [session |-> NoSession, q |-> << >>, before |-> EmptySlot, owner_before |-> NoSession,
     route |-> "none", selected |-> << >>, nav_calls |-> << >>, resolved |-> << >>,
     method |-> "none", steps |-> << >>, via |-> "none", oracle_calls |-> 0,
     intent |-> NoData, found |-> << >>,
     response |-> Message("none", << >>, None, None, << >>)]

Init ==
    /\ \E src \in Sources :
          /\ ENTITIES = LoadEntities(src)
          /\ FACILITIES = LoadFacilities(src)
    /\ INTENT_CACHE = SeedCache
    /\ pending_confirmation = EmptySlot
    /\ owner = NoSession
    /\ turn = NoTurn
    /\ extractions = [t \in Threads |-> NoCall]

\* variant of HandleUserQuery: the turn leaves the list of buildings in reverse order
HandleUserQuery_reversing_buildings(q) ==
    \E done \in handle_user_query(q), s \in Sessions :
              /\ pending_confirmation' = done.slot
              /\ INTENT_CACHE' = done.ran.cache
              /\ owner' = IF done.slot = pending_confirmation THEN owner
                          ELSE IF done.slot.candidates = << >> THEN NoSession ELSE s
              /\ turn' = [session |-> s, q |-> q, before |-> pending_confirmation,
                          owner_before |-> owner, route |-> done.route,
                          selected |-> done.selected, nav_calls |-> done.nav_calls,
                          resolved |-> done.resolved, method |-> done.ran.method,
                          steps |-> done.ran.steps, via |-> done.ran.via,
                          oracle_calls |-> done.ran.oracle_calls,
                          intent |-> done.ran.intent, found |-> done.ran.found,
                          response |-> done.response]
              /\ ENTITIES' = [ENTITIES EXCEPT !.buildings =
                                    [i \in DOMAIN @ |-> @[Len(@) + 1 - i]]]
              /\ UNCHANGED << FACILITIES, extractions >>

\* One call of handle_user_query(q), made for a turn of conversation s. The code has
\* no session parameter: s only tells whose turn it was.
HandleUserQuery(q) ==
    \E done \in handle_user_query(q), s \in Sessions :
              /\ pending_confirmation' = done.slot
              /\ INTENT_CACHE' = done.ran.cache
              /\ owner' = IF done.slot = pending_confirmation THEN owner
                          ELSE IF done.slot.candidates = << >> THEN NoSession ELSE s
              /\ turn' = [session |-> s, q |-> q, before |-> pending_confirmation,
                          owner_before |-> owner, route |-> done.route,
                          selected |-> done.selected, nav_calls |-> done.nav_calls,
                          resolved |-> done.resolved, method |-> done.ran.method,
                          steps |-> done.ran.steps, via |-> done.ran.via,
                          oracle_calls |-> done.ran.oracle_calls,
                          intent |-> done.ran.intent, found |-> done.ran.found,
                          response |-> done.response]
              /\ UNCHANGED << ENTITIES, FACILITIES, extractions >>

Next == \E q \in Queries : HandleUserQuery(q)

Spec == Init /\ [][Next]_vars

----------------------------------------------------------------------------
(* The program with a menu pending. handle_user_query never fills the slot (its     *)
(* tests at lines 847 and 866 find no prefixed text), so the branches at lines      *)
(* 815-841 are only entered when the module global pending_confirmation holds a     *)
(* menu. SpecPending starts there: the slot holds a menu of the shape lines 852-854 *)
(* and 870-871 store, put for an earlier query of conversation `owner`.             *)

\* The menus: the first k entities of the catalog, for every k up to MAX_CANDIDATES,
\* as a keyword menu, and the last TOP_N in reverse as a similarity menu
Menus(entities) ==
    LET listing == Listing(entities)
        n       == Len(listing)
        Entry(i, score) == Info(listing[i].item.name, listing[i].cat, None, score, None)
    IN  { StoreKeywordMenu(EmptySlot, <<"c", "a", "f", "e">>, [i \in 1..k |-> Entry(i, KEYWORD_SCORE)])
            : k \in 1..Min({MAX_CANDIDATES, n}) }
        \cup { StoreSimilarityMenu(EmptySlot, <<"k", "n", "0", "w">>,
                                   [i \in 1..TOP_N |-> Entry(n + 1 - i, Score(TOP_N + 1 - i, 7))])
                 : k \in { n } \ (0..(TOP_N - 1)) }

InitPending ==
    /\ \E src \in Sources :
          /\ ENTITIES = LoadEntities(src)
          /\ FACILITIES = LoadFacilities(src)
          /\ pending_confirmation \in Menus(LoadEntities(src))
    /\ INTENT_CACHE = SeedCache
    /\ owner \in Sessions
    /\ turn = NoTurn
    /\ extractions = [t \in Threads |-> NoCall]

NextPending == \E q \in Replies : HandleUserQuery(q)

SpecPending == InitPending /\ [][NextPending]_vars


----------------------------------------------------------------------------
(* Calls of extract_intent_with_llm made by concurrent request threads. A thread is  *)
(* at "call" between its miss of the cache and the return of extract_intent_with_llm, *)
(* and the threads interleave at the calls of the oracle, which are HTTP requests.   *)

\* the phrases the threads extract
Phrases == { <<" ", "g", "y", " ">>, <<"c", "a", "f">>, <<"u505c", "u8f66">>, <<"u54ea", "u91cc", "u53ef", "u4ee5", "u505c", "u8f66">> }

\* lines 231-232: the call returns the cached record, or goes on to the oracle
CheckCache(t, query) ==
    /\ extractions[t].pc # "call"
    /\ extractions' = [extractions EXCEPT ![t] =
          IF Strip(query) \in DOMAIN INTENT_CACHE
          THEN [pc |-> "done", query |-> query, calls |-> 0, raw |-> NoReply,
                result |-> INTENT_CACHE[Strip(query)], via |-> "cache"]
          ELSE [pc |-> "call", query |-> query, calls |-> 0, raw |-> NoReply,
                result |-> NoData, via |-> "none"]]
    /\ UNCHANGED << ENTITIES, FACILITIES, INTENT_CACHE, pending_confirmation, owner, turn >>

\* one pass of the loop of lines 266-317 with the oracle's answer raw, and line 320
\* after the last pass
Pass_of_loop(call, raw) ==
    IF Usable(raw)
    THEN [call EXCEPT !.pc = "done", !.calls = @ + 1, !.raw = raw,
                      !.result = Built(raw.data), !.via = "oracle"]
    ELSE IF call.calls < max_retries - 1
    THEN [call EXCEPT !.calls = @ + 1, !.raw = raw]
    ELSE [call EXCEPT !.pc = "done", !.calls = @ + 1, !.raw = raw,
                      !.result = fallback_intent_extraction(call.query), !.via = "fallback"]

CallOracle(t) ==
    /\ extractions[t].pc = "call"
    /\ \E raw \in OracleReplies(extractions[t].query) :
          /\ extractions' = [extractions EXCEPT ![t] = Pass_of_loop(extractions[t], raw)]
          /\ INTENT_CACHE' = IF Usable(raw)
                             THEN Cached(INTENT_CACHE, extractions[t].query, Built(raw.data))
                             ELSE INTENT_CACHE
    /\ UNCHANGED << ENTITIES, FACILITIES, pending_confirmation, owner, turn >>

InitExtract == Init /\ ENTITIES = LoadEntities(SrcEmpty)

NextExtract ==
    \/ \E t \in Threads, query \in Phrases : CheckCache(t, query)
    \/ \E t \in Threads : CallOracle(t)

SpecExtract == InitExtract /\ [][NextExtract]_vars

\* The same calls made one after the other: a call begins when no other is in progress
NextSerial ==
    \/ \E t \in Threads, query \in Phrases :
          /\ \A u \in Threads : extractions[u].pc # "call"
          /\ CheckCache(t, query)
    \/ \E t \in Threads : CallOracle(t)

SpecSerial == InitExtract /\ [][NextSerial]_vars

\* What is asked while the oracle cannot be reached
Wordings ==
    { <<"u6e38", "u6cf3">>, <<"p", "a", "r", "k", " ", "c", "a", "f", "e">>, <<"r", "e", "s", "t", "a", "u", "r", "a", "n", "t">>, <<"R", "e", "s", "t", "r", "o", "o", "m">>, <<"S", "w", "i", "m", "m", "i", "n", "g", " ", "P", "o", "o", "l">>, <<"g", "y", "m", " ", "b", "a", "n", "k">>,
      <<"a", "t", "m", "?">>, <<"s", "t", "u", "d", "y">>, <<"c", "l", "i", "n", "i", "c">>, <<"c", "o", "p", "y">>, <<"t", "o", "i", "l", "e", "t">>, <<"z", "z", "uff1f">>, <<" ", "z", "?", " ">>, <<"u54ea", "u91cc", "u53ef", "u4ee5", "u505c", "u8f66">> }

\* A call of extract_intent_with_llm while the oracle cannot be reached: _call returns ""
\* (line 71) to each of the max_retries attempts
ExtractOffline(t, query) ==
    /\ extractions' = [extractions EXCEPT ![t] =
          [pc |-> "done", query |-> query,
           calls |-> Extract(query, << Silent, Silent >>).calls,
           raw |-> IF Extract(query, << Silent, Silent >>).calls = 0 THEN NoReply ELSE Silent,
           result |-> Extract(query, << Silent, Silent >>).result,
           via |-> Extract(query, << Silent, Silent >>).via]]
    /\ INTENT_CACHE' = Extract(query, << Silent, Silent >>).cache
    /\ UNCHANGED << ENTITIES, FACILITIES, pending_confirmation, owner, turn >>

NextOffline == \E t \in Threads, query \in Wordings : ExtractOffline(t, query)

SpecOffline == InitExtract /\ [][NextOffline]_vars
----------------------------------------------------------------------------
(* Properties of the confirmation slot and of the replies to a menu *)

Awaiting(slot) == slot.candidates # << >>

MenuKinds == { "location_candidates", "location_confirm", "keyword_menu", "similarity_menu" }

Triples(content) ==
    [i \in DOMAIN content |-> << content[i].name, content[i].category, content[i].score >>]

\* C1: whenever the resolution run by a turn produces a Candidates outcome (keyword or
\* similarity candidates), the slot holds exactly that candidate list after the turn.
C1_CandidatesAreStored ==
    (turn.route = "resolve" /\ turn.response.kind \in MenuKinds)
        => /\ Awaiting(pending_confirmation)
           /\ pending_confirmation.candidates = Triples(turn.response.content)

C3_Chosen(q) ==
    IF q \in { <<"y", "e", "s">>, <<"1">> } THEN 1
    ELSE IF q = <<"2">> THEN 2 ELSE IF q = <<"3">> THEN 3
    ELSE IF q = <<"4">> THEN 4 ELSE IF q = <<"5">> THEN 5 ELSE 0

\* C3: with candidates c1..ck pending, "yes" or "1" selects c1 and a number n in 2..k
\* selects cn: the map is asked for that candidate and no other, the answer names it,
\* tool_query_location and the oracle do not run, and the slot is empty afterwards.
C3_ReplySelectsItsCandidate ==
    LET k == Len(turn.before.candidates)
        n == C3_Chosen(turn.q)
        c == turn.before.candidates[n]
    IN  (1 <= n /\ n <= k)
            => /\ turn.selected = c
               /\ Len(turn.nav_calls) = 1
               /\ turn.nav_calls[1].name = c[1] /\ turn.nav_calls[1].category = c[2]
               /\ turn.response.name = c[1]
               /\ turn.response.kind = IF turn.nav_calls[1].ok THEN "found" ELSE "not_located"
               /\ turn.nav_calls[1].ok => turn.response.category = c[2]
               /\ turn.resolved = << >> /\ turn.steps = << >>
               /\ turn.oracle_calls = 0 /\ turn.via = "none"
               /\ pending_confirmation = EmptySlot

C3_SecondOfThreeSelected ==
    /\ turn.q = <<"2">>
    /\ Len(turn.before.candidates) = 3
    /\ turn.selected = turn.before.candidates[2]
    /\ turn.response.kind = "found"
    /\ turn.response.name = turn.before.candidates[2][1]
    /\ ~ Awaiting(pending_confirmation)

\* C4: with a menu pending, "no" empties the slot and answers with the rejection, which
\* names no entity, without a map call and without a resolution; "0" does the same.
C4_NoAndZeroReject ==
    (Awaiting(turn.before) /\ turn.q \in { <<"n", "o">>, <<"0">> })
        => /\ pending_confirmation = EmptySlot
           /\ turn.response.kind = "rejected"
           /\ turn.response.name = None /\ turn.response.category = None
           /\ turn.response.content = << >>
           /\ turn.selected = << >>
           /\ turn.nav_calls = << >>
           /\ turn.resolved = << >> /\ turn.steps = << >>
           /\ turn.oracle_calls = 0 /\ turn.via = "none"

C4_ZeroRejected ==
    /\ Awaiting(turn.before)
    /\ turn.q = <<"0">>
    /\ turn.response.kind = "rejected"
    /\ pending_confirmation = EmptySlot

C6_Recognised(q, k) ==
    LET t == Strip(q)
    IN  \/ Strip(Lower(q)) \in { <<"u662f">>, <<"y", "e", "s">>, <<"u5bf9">>, <<"y">>, <<"u786e", "u8ba4">>, <<"1">> }
        \/ Strip(Lower(q)) \in { <<"u5426">>, <<"n", "o">>, <<"u4e0d", "u662f">>, <<"n">>, <<"0">> }
        \/ \E n \in 1..k : t = << <<"1","2","3","4","5","6","7","8","9">>[n] >>

\* C6: with k candidates pending, a reply that is no recognised confirmation, no
\* recognised rejection and no number in 1..k (k+1 included) selects no candidate, is
\* no rejection and is resolved as a fresh query; the candidates stay in the slot unless
\* that resolution stored a new menu.
C6_UnrecognisedReplyKeepsMenu ==
    (Awaiting(turn.before) /\ ~ C6_Recognised(turn.q, Len(turn.before.candidates)))
        => /\ turn.selected = << >>
           /\ turn.response.kind # "rejected"
           /\ turn.route = "resolve" /\ turn.resolved = << turn.q >>
           /\ \/ pending_confirmation = turn.before
              \/ /\ turn.response.kind \in MenuKinds
                 /\ pending_confirmation.candidates = Triples(turn.response.content)
                 /\ Awaiting(pending_confirmation)

C6_OutOfRangeNumberKeepsMenu ==
    /\ Len(turn.before.candidates) = 3
    /\ turn.q = <<"4">>
    /\ turn.resolved = << <<"4">> >>
    /\ turn.selected = << >>
    /\ pending_confirmation = turn.before

----------------------------------------------------------------------------
(* Properties of the resolution *)

Range(s) == { s[i] : i \in DOMAIN s }

UpperChar(c) ==
    IF \E i \in DOMAIN LowerCase : LowerCase[i] = c
    THEN UpperCase[CHOOSE i \in DOMAIN LowerCase : LowerCase[i] = c]
    ELSE c

Upper(s) == [i \in 1..Len(s) |-> UpperChar(s[i])]

\* a string as written, in small letters and in capitals
Spellings(s) == { s, Lower(s), Upper(s) }

NamesOf(item) == { item.name } \cup Range(item.aliases)

\* the places in the scan order of the entities that bear s, letter case and the
\* white space around s left aside
Bearers(s) ==
    LET listing == Listing(ENTITIES)
    IN  { i \in DOMAIN listing : \E a \in NamesOf(listing[i].item) : Lower(a) = Strip(Lower(s)) }

\* the answers of the exact step for the entity `hit`, found by the map or not
ExactAnswer(hit) ==
    /\ turn.method = "exact"
    /\ turn.steps = << "exact", "navigate" >>
    /\ turn.oracle_calls = 0
    /\ Len(turn.nav_calls) = 1
    /\ turn.nav_calls[1].name = hit[1]
    /\ turn.nav_calls[1].category = hit[2]
    /\ turn.response = IF turn.nav_calls[1].ok THEN Found(hit[1], hit[2])
                       ELSE InVocabularyNotLocated(hit[1])

\* a resolution of a string that local_match_exact finds ends at the exact step
AnsweredExactly(local_hit) ==
    (turn.route = "resolve" /\ local_hit # NoHit) => ExactAnswer(local_hit)

\* C7 as stated: every name and every alias of every entity E, in any letter case,
\* resolves by the exact step to E itself (whenever the map locates what it is asked).
C7_EveryNameResolvesToItsEntity ==
    /\ \A i \in DOMAIN Listing(ENTITIES) :
          \A a \in NamesOf(Listing(ENTITIES)[i].item) : \A s \in Spellings(a) :
              local_match_exact(s) = << Listing(ENTITIES)[i].item.name, Listing(ENTITIES)[i].cat >>
    /\ AnsweredExactly(local_match_exact(turn.q))

\* the entity at place i of the scan order, as local_match_exact returns it
At(listing, i) == << listing[i].item.name, listing[i].cat >>

\* C7 amended: every string s that is, letter case aside, a name or an alias of an
\* entity is resolved by the exact step and by no other: the map is asked once, for the
\* first entity in category-then-catalog order that bears s - E itself when no entity
\* before E bears s - and the answer is Resolved with that entity when the map locates
\* it and the in-vocabulary warning naming it when the map does not.
C7_EveryNameResolvesToFirstBearer ==
    /\ \A i \in DOMAIN Listing(ENTITIES) :
          \A a \in NamesOf(Listing(ENTITIES)[i].item) : \A s \in Spellings(a) :
              /\ i \in Bearers(s)
              /\ local_match_exact(s) = At(Listing(ENTITIES), Min(Bearers(s)))
    /\ Bearers(turn.q) # {} => local_match_exact(turn.q) # NoHit
    /\ AnsweredExactly(local_match_exact(turn.q))

C7_SharedAliasGoesToFirstBearer ==
    /\ turn.q = <<"l", "i", "b">>
    /\ Cardinality(Bearers(turn.q)) = 2
    /\ turn.method = "exact"
    /\ turn.response = Found(<<"L", "i", "b", "r", "a", "r", "y">>, <<"b", "u", "i", "l", "d", "i", "n", "g">>)

\* score > n / d
Over(score, n, d) == score.num * d > n * score.den

\* the last turn was a resolution that reached the similarity step
Ranking == turn.route = "resolve" /\ "similarity" \in Range(turn.steps)

HighScoreResolves(matches) ==
    (Ranking /\ matches # << >> /\ Over(matches[1][3], 6, 10))
        => /\ turn.response = Found(matches[1][1], matches[1][2])
           /\ turn.method = "similarity"

\* C8 as stated: when the resolution reaches the similarity step and the top score is
\* above 0.6, the outcome is Resolved with the top entity and method similarity.
C8_HighScoreResolves == HighScoreResolves(find_best_matches(turn.q, 3))

AsksBack(matches) ==
    /\ turn.response.kind = "location_confirm"
    /\ Triples(turn.response.content) = matches
    /\ turn.method = "similarity"

GivesUp ==
    /\ turn.response.kind = "location"
    /\ turn.response.content = << >>
    /\ turn.method = "none"

AsksMap(matches, asked) ==
    /\ asked.name = matches[1][1]
    /\ asked.category = matches[1][2]
    /\ IF asked.ok
       THEN turn.response = Found(matches[1][1], matches[1][2]) /\ turn.method = "similarity"
       ELSE AsksBack(matches)

SimilarityAnswer(matches) ==
    Ranking
        => IF matches # << >> /\ Over(matches[1][3], 6, 10)
           THEN turn.nav_calls # << >> /\ AsksMap(matches, turn.nav_calls[Len(turn.nav_calls)])
           ELSE IF matches # << >> /\ Over(matches[1][3], 3, 10)
           THEN AsksBack(matches)
           ELSE GivesUp

\* C8 amended: when the resolution reaches the similarity step with top score s:
\* s > 0.6 gives Resolved with the top entity and method similarity if the map locates
\* that entity, and Candidates with all top-3 entries and their scores if it does not;
\* 0.3 < s <= 0.6 gives Candidates with all top-3 entries and their scores; s <= 0.3, or
\* an empty catalog, gives Unresolved. Both comparisons are strict.
C8_SimilarityOutcome == SimilarityAnswer(find_best_matches(turn.q, 3))

C8_ExactlySixTenthsAsksBack ==
    /\ turn.q = <<"l", "4", "a", "5", "w", "6", "7">>
    /\ "similarity" \in Range(turn.steps)
    /\ turn.response.kind = "location_confirm"
    /\ turn.response.content[1].score.num * 10 = 6 * turn.response.content[1].score.den
    /\ Len(turn.response.content) = 3

\* C9: the intent extractor (and so the oracle) runs only for a query that is shorter
\* than 15 characters once trimmed and has no digit; a query of 15 characters or more,
\* or with a digit, goes from the exact and fuzzy steps to the similarity ranking with
\* no oracle call.
C9_ExtractorOnlyForShortQueries ==
    LET short     == /\ Len(Strip(turn.q)) < 15
                     /\ \A i \in DOMAIN turn.q : turn.q[i] \notin {"0","1","2","3","4","5","6","7","8","9"}
        extracted == \/ "extract" \in Range(turn.steps)
                     \/ turn.via # "none"
                     \/ turn.oracle_calls > 0
    IN  turn.route = "resolve"
            => /\ extracted => short
               /\ ~ short => /\ turn.oracle_calls = 0 /\ turn.via = "none"
                             /\ Range(turn.steps) \subseteq { "exact", "fuzzy", "navigate", "similarity" }
                             /\ turn.method \notin { "exact", "fuzzy" }
                                   => "similarity" \in Range(turn.steps)

C9_PaddedFourteenIsExtracted ==
    /\ turn.q = <<" ", "z", "z", "z", "z", "z", "z", "z", "z", "z", "z", "z", "z", "z", "z", " ", " ">>
    /\ Len(turn.q) = 17
    /\ "extract" \in Range(turn.steps)
    /\ turn.oracle_calls = 2

\* C10: every Candidates outcome of the resolution, keyword or similarity, has between
\* 1 and 5 entries, and its scores do not increase from the first entry to the last.
C10_MenusAreShortAndSorted ==
    LET content == turn.response.content
    IN  turn.response.kind \in MenuKinds
            => /\ 1 <= Len(content) /\ Len(content) <= 5
               /\ \A i \in 1..(Len(content) - 1) :
                     content[i].score.num * content[i + 1].score.den
                         >= content[i + 1].score.num * content[i].score.den

C10_SixHitsCutToFive ==
    /\ Len(ENTITIES.facilities) = 6
    /\ turn.q = <<"c", "a", "f", "e">>
    /\ turn.response.kind = "location_candidates"
    /\ Len(turn.response.content) = 5


----------------------------------------------------------------------------
(* Properties of the intent extractor *)

\* an answer of the oracle that fails the attempt: an empty text, a raised error, a
\* text that is no JSON, a JSON object without keywords
Failed(raw) ==
    \/ raw.kind \in { "empty", "raise", "text" }
    \/ raw.kind = "json" /\ raw.data.keywords = << >>

\* C11: one call of extract_intent_with_llm calls the oracle at most 2 times; it is
\* about to call again only after a failed first attempt, it ends at once with a
\* successful attempt, and after two failed attempts it ends with the record of the
\* rule-based fallback.
C11_AtMostTwoOracleCalls ==
    \A t \in Threads :
        /\ extractions[t].calls <= 2
        /\ extractions[t].pc = "call"
              => /\ extractions[t].calls <= 1
                 /\ extractions[t].calls = 1 => Failed(extractions[t].raw)
        /\ (extractions[t].calls >= 1 /\ ~ Failed(extractions[t].raw))
              => extractions[t].pc = "done" /\ extractions[t].via = "oracle"
        /\ (extractions[t].calls = 2 /\ Failed(extractions[t].raw))
              => /\ extractions[t].pc = "done"
                 /\ extractions[t].via = "fallback"
                 /\ extractions[t].result = fallback_intent_extraction(extractions[t].query)
        /\ extractions[t].via = "fallback" => extractions[t].calls = 2
        /\ extractions[t].via = "cache" => extractions[t].calls = 0

C11_SecondAttemptSucceeded ==
    \E t \in Threads :
        /\ extractions[t].pc = "done"
        /\ extractions[t].query = <<" ", "g", "y", " ">>
        /\ extractions[t].calls = 2
        /\ extractions[t].via = "oracle"
        /\ extractions[t].result.intent = <<"f", "i", "n", "d", "_", "g", "y", "m">>

\* the rules of the fallback before the parking rule
BeforeParking == 1..6

\* C12: a call that missed the cache and whose two attempts failed, in whichever way
\* the oracle failed, has returned the record the rule-based fallback selects for its
\* query, with keywords to search for; for a query with the word for parking that
\* fires no earlier rule this is the parking record, and "parking" is a keyword of it.
C12_FailuresEndInFallback ==
    \A t \in Threads :
        (extractions[t].calls = 2 /\ Failed(extractions[t].raw))
            => /\ extractions[t].pc = "done"
               /\ extractions[t].result = fallback_intent_extraction(extractions[t].query)
               /\ extractions[t].result.keywords # << >>
               /\ (/\ Contains(extractions[t].query, <<"u505c", "u8f66">>)
                   /\ Firing(FallbackRules, Lower(extractions[t].query)) \cap BeforeParking = {})
                     => /\ extractions[t].result.intent = <<"f", "i", "n", "d", "_", "p", "a", "r", "k", "i", "n", "g">>
                        /\ <<"p", "a", "r", "k", "i", "n", "g">> \in Range(extractions[t].result.keywords)

C12_RaisedTwiceGivesParking ==
    \E t \in Threads :
        /\ extractions[t].pc = "done"
        /\ extractions[t].query = <<"u505c", "u8f66">>
        /\ extractions[t].raw = Broken
        /\ extractions[t].calls = 2
        /\ extractions[t].result.intent = <<"f", "i", "n", "d", "_", "p", "a", "r", "k", "i", "n", "g">>

\* the step keeps every entry of the cache as it is
EntriesKept ==
    \A k \in DOMAIN INTENT_CACHE :
        k \in DOMAIN INTENT_CACHE' /\ INTENT_CACHE'[k] = INTENT_CACHE[k]

\* the step is thread t beginning a call of extract_intent_with_llm
Begins(t) == extractions[t].pc # "call" /\ extractions'[t] # extractions[t]

\* the step is thread t ending its call with a record made of the oracle's answer
Learns(t) == extractions[t].pc = "call" /\ extractions'[t].via = "oracle"

C14_FallbackAnswersAreCached ==
    \A t \in Threads :
        (extractions[t].pc = "done" /\ extractions[t].via = "fallback")
            => /\ Strip(extractions[t].query) \in DOMAIN INTENT_CACHE
               /\ INTENT_CACHE[Strip(extractions[t].query)] = extractions[t].result

\* C19: under every interleaving of the calls of extract_intent_with_llm no step
\* removes a key of the cache or replaces the record of a key by another record.
C19_CacheIsAppendOnly == [][EntriesKept]_vars

\* the answer has the three required fields
Complete(data) ==
    data.intent # None /\ data.keywords # << >> /\ data.category_hint # None

\* C20: a call returns a record made of the oracle's answer, and has written it to
\* the cache, only if the answer had all of intent, keywords and category_hint; the
\* record is then the answer as given, with no field filled in by default.
C20_IncompleteAnswersRejected ==
    \A t \in Threads :
        extractions[t].via = "oracle"
            => /\ Complete(extractions[t].raw.data)
               /\ extractions[t].result = extractions[t].raw.data

----------------------------------------------------------------------------
(* Properties of the catalog *)

\* C15: no two entities of the facility list of the catalog have the same name.
C15_FacilityNamesUnique ==
    \A i, j \in DOMAIN ENTITIES.facilities :
        ENTITIES.facilities[i].name = ENTITIES.facilities[j].name => i = j

\* C16: no turn changes the catalog: every call of handle_user_query, with the calls
\* of tool_query_location, extract_intent_with_llm, search_by_keywords and
\* find_best_matches it makes, leaves ENTITIES and FACILITIES as they were.
C16_TurnsLeaveCatalogAlone ==
    [][ENTITIES' = ENTITIES /\ FACILITIES' = FACILITIES]_vars

C16_CatalogAsLoadedAfterFullResolution ==
    /\ turn.route = "resolve"
    /\ "keywords" \in Range(turn.steps)
    /\ "similarity" \in Range(turn.steps)
    /\ turn.response.kind = "location_confirm"
    /\ ENTITIES = LoadEntities(SrcMain)
    /\ FACILITIES = LoadFacilities(SrcMain)

----------------------------------------------------------------------------
(* Properties of the fuzzy step *)

\* the last turn was a resolution the exact step did not end
PastExact(local_hit) == turn.route = "resolve" /\ local_hit = NoHit

FuzzyResolves(fuzzy_hit) ==
    /\ turn.response = Found(fuzzy_hit[1], fuzzy_hit[2])
    /\ turn.method = "fuzzy"
    /\ turn.oracle_calls = 0
    /\ turn.via = "none"
    /\ "extract" \notin Range(turn.steps)
    /\ "similarity" \notin Range(turn.steps)

FuzzyAlwaysResolves(fuzzy_hit) ==
    (PastExact(local_match_exact(turn.q)) /\ fuzzy_hit # NoHit) => FuzzyResolves(fuzzy_hit)

\* C17 as stated: when the exact matcher finds nothing and the fuzzy matcher finds an
\* entity, the outcome is Resolved with that entity and method fuzzy, and neither the
\* extractor nor the similarity scorer is consulted.
C17_FuzzyHitResolves == FuzzyAlwaysResolves(local_match_fuzzy(turn.q))

FuzzyAsksMap(fuzzy_hit) ==
    (PastExact(local_match_exact(turn.q)) /\ fuzzy_hit # NoHit)
        => /\ SubSeq(turn.steps, 1, 3) = << "exact", "fuzzy", "navigate" >>
           /\ turn.nav_calls[1].name = fuzzy_hit[1]
           /\ turn.nav_calls[1].category = fuzzy_hit[2]
           /\ IF turn.nav_calls[1].ok
              THEN FuzzyResolves(fuzzy_hit) /\ Len(turn.steps) = 3
              ELSE /\ turn.method # "fuzzy"
                   /\ \/ "similarity" \in Range(turn.steps)
                      \/ turn.response.kind = "location_candidates"
                   /\ "extract" \in Range(turn.steps)
                         <=> (Len(Strip(turn.q)) < 15
                                /\ \A i \in DOMAIN turn.q : ~ IsDigit(turn.q[i]))

\* C17 amended: when the exact matcher finds nothing and the fuzzy matcher finds an
\* entity, the map is asked for that entity. If the map locates it, the outcome is
\* Resolved with that entity and method fuzzy, and neither the extractor nor the
\* similarity scorer is consulted. If the map does not, the resolution goes on as it
\* does after a fuzzy miss: the extractor is consulted when the query is short and has
\* no digit, and the outcome is a keyword menu or that of the similarity ranking.
C17_FuzzyHitResolvesIfLocated == FuzzyAsksMap(local_match_fuzzy(turn.q))

C17_FuzzyHitLocated ==
    /\ turn.q = <<"w", "h", "e", "r", "e", " ", "i", "s", " ", "k", "b">>
    /\ turn.method = "fuzzy"
    /\ turn.response = Found(<<"K", "n", "o", "w", "l", "e", "s">>, <<"b", "u", "i", "l", "d", "i", "n", "g">>)
    /\ turn.oracle_calls = 0

----------------------------------------------------------------------------
(* Properties of the similarity ranking *)

\* the scores of the query against the name and the aliases of an entity
ScoresOf(ql, item) == { calculate_similarity(ql, n) : n \in NamesOf(item) }

\* a greatest element of a set of scores
Greatest(scores) == CHOOSE s \in scores : \A u \in scores : ~ Greater(u, s)

\* the best score of every entity of the listing
BestScores(listing, ql) == [j \in DOMAIN listing |-> Greatest(ScoresOf(ql, listing[j].item))]

\* entity i goes before entity j: a greater score, or the same score and an earlier
\* place in the scan order
GoesBefore(best, i, j) ==
    \/ Greater(best[i], best[j])
    \/ ~ Greater(best[j], best[i]) /\ i < j

PlaceOf(best, j) == 1 + Cardinality({ i \in DOMAIN best : GoesBefore(best, i, j) })

\* matches is the first top_n places of the ranking of the listing by `best`
RankedStably(matches, listing, best, top_n) ==
    /\ Len(matches) = Min({ top_n, Len(listing) })
    /\ \A j \in DOMAIN listing :
          PlaceOf(best, j) <= top_n
              => /\ matches[PlaceOf(best, j)][1] = listing[j].item.name
                 /\ matches[PlaceOf(best, j)][2] = listing[j].cat
                 /\ ~ Greater(matches[PlaceOf(best, j)][3], best[j])
                 /\ ~ Greater(best[j], matches[PlaceOf(best, j)][3])

\* the sizes asked of find_best_matches
TopSizes == 0..4

\* C18: find_best_matches(q, top_n) has one entry for each of the top_n entities of
\* the ranking that puts the greater score first - the score of an entity being the
\* greatest over its name and its aliases - and, among equal scores, the entity that
\* comes first in the scan order (buildings, departments, facilities; list order within
\* each); it has an entry for every entity when there are fewer than top_n.
C18_RankingIsStable ==
    \A top_n \in TopSizes :
        RankedStably(find_best_matches(turn.q, top_n), Listing(ENTITIES),
                     BestScores(Listing(ENTITIES), Strip(Lower(turn.q))), top_n)

C18_EqualScoresInCatalogOrder ==
    /\ turn.q = <<"c", "a", "f", "e">>
    /\ ENTITIES = LoadEntities(SrcCafes)
    /\ Listing(ENTITIES)[1].item.name = <<"C", "a", "f", "e", "t", "e", "r", "i", "a">>
    /\ find_best_matches(turn.q, 3) =
          << << <<"C", "a", "f", "e", " ", "A">>, CatName(<<"f", "a", "c", "i", "l", "i", "t", "i", "e", "s">>), Score(8, 10) >>,
             << <<"C", "a", "f", "e", " ", "B">>, CatName(<<"f", "a", "c", "i", "l", "i", "t", "i", "e", "s">>), Score(8, 10) >>,
             << <<"C", "a", "f", "e", " ", "C">>, CatName(<<"f", "a", "c", "i", "l", "i", "t", "i", "e", "s">>), Score(8, 10) >> >>

----------------------------------------------------------------------------
(* Properties of the fuzzy matcher, the fallback rules and the keyword search *)

\* the places of the scan order whose entity has a name or an alias that is part of
\* ql, or that ql is part of
EitherWay(listing, ql) ==
    { i \in DOMAIN listing : \E a \in NamesOf(listing[i].item) :
          Contains(ql, Lower(a)) \/ Contains(Lower(a), ql) }

\* C21: local_match_fuzzy returns the first entity, in the scan order, that has a name
\* or an alias that is part of the lower-cased query or that the query is part of.
C21_FuzzyMatchesBothWays ==
    turn.q # << >>
        => local_match_fuzzy(turn.q) = FirstHit(EitherWay(Listing(ENTITIES), Lower(turn.q)))

\* the intents of the rules in the order the fallback tries them
RuleOrder ==
    << <<"f", "i", "n", "d", "_", "s", "p", "o", "r", "t", "s", "_", "f", "a", "c", "i", "l", "i", "t", "y">>, <<"f", "i", "n", "d", "_", "r", "e", "s", "t", "_", "a", "r", "e", "a">>, <<"f", "i", "n", "d", "_", "d", "i", "n", "i", "n", "g">>, <<"f", "i", "n", "d", "_", "s", "t", "u", "d", "y", "_", "s", "p", "a", "c", "e">>,
       <<"f", "i", "n", "d", "_", "h", "e", "a", "l", "t", "h", "_", "s", "e", "r", "v", "i", "c", "e">>, <<"f", "i", "n", "d", "_", "p", "r", "i", "n", "t", "i", "n", "g">>, <<"f", "i", "n", "d", "_", "p", "a", "r", "k", "i", "n", "g">>, <<"f", "i", "n", "d", "_", "s", "w", "i", "m", "m", "i", "n", "g">>,
       <<"f", "i", "n", "d", "_", "t", "o", "i", "l", "e", "t">>, <<"f", "i", "n", "d", "_", "b", "a", "n", "k">> >>

Triggered(r, query) ==
    \E i \in DOMAIN FallbackRules[r].triggers : Contains(Lower(query), FallbackRules[r].triggers[i])

Unasked(query) == Strip(SelectSeq(query, LAMBDA c : c \notin {"?", "uff1f"}))

FallbackOf(query, result) ==
    IF \E r \in DOMAIN FallbackRules : Triggered(r, query)
    THEN \E r \in DOMAIN FallbackRules :
            /\ Triggered(r, query)
            /\ \A s \in 1..(r - 1) : ~Triggered(s, query)
            /\ result = FallbackRules[r].record
            /\ result.intent = RuleOrder[r]
    ELSE result = Intent(<<"u", "n", "k", "n", "o", "w", "n">>, << query, Unasked(query) >>, <<"f", "a", "c", "i", "l", "i", "t", "y">>, None)

\* C22: the rule-based fallback answers with the record of the first rule, in the order
\* sports, rest, dining, study, health, printing, parking, swimming, toilet, bank, one of
\* whose triggers is part of the lower-cased query, and when no rule fires with the intent
\* 'unknown', the keywords [query, query without question marks, trimmed] and the hint
\* facility.
C22_FallbackTakesFirstRule ==
    \A t \in Threads :
        extractions[t].via = "fallback"
            => FallbackOf(extractions[t].query, extractions[t].result)

\* a query with triggers of the sports and of the swimming rule was answered by the
\* sports rule, and a query no rule knows by the default
C22_TwoRulesFireFirstWins ==
    \E t, u \in Threads :
        /\ extractions[t].via = "fallback"
        /\ Triggered(1, extractions[t].query) /\ Triggered(8, extractions[t].query)
        /\ extractions[t].result.intent = <<"f", "i", "n", "d", "_", "s", "p", "o", "r", "t", "s", "_", "f", "a", "c", "i", "l", "i", "t", "y">>
        /\ extractions[u].via = "fallback"
        /\ extractions[u].query = <<"z", "z", "uff1f">>
        /\ extractions[u].result.keywords = << <<"z", "z", "uff1f">>, <<"z", "z">> >>

\* the bucket of a subcategory hint in the facility source: empty when there is no
\* hint, no facility source or no bucket of that name
BucketOf(subcategory) ==
    IF subcategory = None \/ "subcategory" \notin DOMAIN FACILITIES THEN << >>
    ELSE IF subcategory \notin DOMAIN FACILITIES["subcategory"] THEN << >>
    ELSE FACILITIES["subcategory"][subcategory]

\* the places of a bucket that hold a name for the first time
Firsts(items) == {i \in DOMAIN items : \A j \in 1..(i - 1) : items[j].name # items[i].name}

OnePerName(items, keyword, results) ==
    /\ Len(results) = Cardinality(Firsts(items))
    /\ \A n \in DOMAIN results :
          \E i \in Firsts(items) :
              /\ Cardinality({j \in Firsts(items) : j < i}) + 1 = n
              /\ results[n] = << items[i].name, <<"f", "a", "c", "i", "l", "i", "t", "y">>, keyword >>

\* C23: with a subcategory hint whose bucket in the facility source is not empty,
\* search_by_keywords returns the entities of the bucket and nothing else - one result for
\* each distinct canonical name, in bucket order, of category facility, with the first
\* keyword as matched keyword; without a hint, or with a missing or empty bucket, it
\* returns what the general keyword search returns.
C23_BucketAnswersHintedSearch ==
    turn.via # "none"
        => IF BucketOf(turn.intent.subcategory) # << >>
           THEN OnePerName(BucketOf(turn.intent.subcategory), turn.intent.keywords[1], turn.found)
           ELSE turn.found = GeneralSearch(Listing(ENTITIES), turn.intent.keywords)

\* the search for the swimming rule's record was answered from a bucket that lists one
\* name twice, by fewer results than the bucket has entries and other results than the
\* general search finds
C23_BucketWithRepeatedNameSearched ==
    /\ turn.via = "fallback"
    /\ turn.intent.subcategory = <<"S", "p", "o", "r", "t", "s">>
    /\ Len(BucketOf(turn.intent.subcategory)) = 3
    /\ Len(turn.found) = 2
    /\ turn.found # GeneralSearch(Listing(ENTITIES), turn.intent.keywords)

\* keyword k of the record, lower-cased and stripped, is not empty and is part of the
\* name or of an alias of entity l of the listing
Holds(listing, keywords, k, l) ==
    /\ Strip(Lower(keywords[k])) # << >>
    /\ \E a \in NamesOf(listing[l].item) : Contains(Lower(a), Strip(Lower(keywords[k])))

Pairs(listing, keywords) ==
    {p \in (DOMAIN keywords) \X (DOMAIN listing) : Holds(listing, keywords, p[1], p[2])}

\* keyword first, then the scan order of the catalog
Precedes(p, r) == p[1] < r[1] \/ (p[1] = r[1] /\ p[2] < r[2])

\* the earliest pair of a keyword and an entity of that name
Origin(listing, keywords, name) ==
    CHOOSE p \in Pairs(listing, keywords) :
        /\ listing[p[2]].item.name = name
        /\ \A r \in Pairs(listing, keywords) :
              listing[r[2]].item.name = name => (r = p \/ Precedes(p, r))

NoNameTwice(results) ==
    \A i, j \in DOMAIN results : i # j => results[i][1] # results[j][1]

GeneralResults(listing, keywords, results) ==
    /\ {results[i][1] : i \in DOMAIN results}
          = {listing[p[2]].item.name : p \in Pairs(listing, keywords)}
    /\ \A i \in DOMAIN results :
          results[i] = << results[i][1],
                          listing[Origin(listing, keywords, results[i][1])[2]].cat,
                          keywords[Origin(listing, keywords, results[i][1])[1]] >>
    /\ \A i, j \in DOMAIN results :
          i < j => Precedes(Origin(listing, keywords, results[i][1]),
                            Origin(listing, keywords, results[j][1]))

\* C24: the list search_by_keywords returns holds no canonical name twice, and the
\* general search returns the names its keywords are part of (of the name or of an
\* alias), each once, tagged with the earliest such keyword, ordered by keyword, then by
\* category (buildings, departments, facilities), then by catalog order; a keyword that
\* is empty or blank matches nothing.
C24_SearchResultsDistinctAndOrdered ==
    turn.via # "none"
        => /\ NoNameTwice(turn.found)
           /\ BucketOf(turn.intent.subcategory) = << >>
                 => GeneralResults(Listing(ENTITIES), turn.intent.keywords, turn.found)

\* a general search listed a department after a facility because its keyword came later,
\* and an entity two keywords are part of once, under the earlier keyword
C24_LaterKeywordListedLater ==
    /\ turn.via = "oracle"
    /\ BucketOf(turn.intent.subcategory) = << >>
    /\ \E i, j \in DOMAIN turn.found :
          /\ i < j
          /\ turn.found[i][2] = CatName(<<"f", "a", "c", "i", "l", "i", "t", "i", "e", "s">>)
          /\ turn.found[j][2] = CatName(<<"d", "e", "p", "a", "r", "t", "m", "e", "n", "t", "s">>)
    /\ \E i \in DOMAIN turn.found, k \in DOMAIN turn.intent.keywords :
          /\ turn.found[i] = << <<"K", "n", "o", "w", "l", "e", "s">>, <<"b", "u", "i", "l", "d", "i", "n", "g">>, <<"o">> >>
          /\ turn.intent.keywords[k] = <<"w">>

\* the default record of the query "?" has an empty second keyword, and the search
\* found nothing in a catalog that has entities
C24_EmptyKeywordMatchesNothing ==
    /\ turn.q = <<"?">>
    /\ turn.intent.keywords = << <<"?">>, << >> >>
    /\ Listing(ENTITIES) # << >>
    /\ turn.found = << >>

----------------------------------------------------------------------------
(* Properties of the keyword path, of the map's failures and of the extractor's records *)

\* The category of a search result: building, department or facility. The general
\* search reports the entities of the facilities list under the list's key without its
\* last letter, the bucket under "facility".
CategoryOf(result) ==
    IF result[2] = CatName(<<"f", "a", "c", "i", "l", "i", "t", "i", "e", "s">>) THEN <<"f", "a", "c", "i", "l", "i", "t", "y">> ELSE result[2]

Hinted(results, category_hint) ==
    SelectSeq(results, LAMBDA r : CategoryOf(r) = category_hint)

FirstFive(results) == [i \in 1..(IF Len(results) < 5 THEN Len(results) ELSE 5) |-> results[i]]

NamesAndKeywords(content) ==
    [i \in DOMAIN content |-> << content[i].name, content[i].matched_keyword >>]

\* C25: when the keyword search returns results, the candidates of the keyword path are
\* the first five at most of the results whose category is the extractor's category hint,
\* in search order, and the first five at most of all results when none is of that
\* category - a candidate of another category never appears when a result of the hinted
\* category exists.
C25_CandidatesOfHintedCategory ==
    (turn.via # "none" /\ turn.found # << >>)
        => /\ turn.method = "keyword"
           /\ NamesAndKeywords(turn.response.content)
                 = [i \in DOMAIN FirstFive(IF Hinted(turn.found, turn.intent.category_hint) # << >>
                                            THEN Hinted(turn.found, turn.intent.category_hint)
                                            ELSE turn.found) |->
                       << FirstFive(IF Hinted(turn.found, turn.intent.category_hint) # << >>
                                    THEN Hinted(turn.found, turn.intent.category_hint)
                                    ELSE turn.found)[i][1],
                          FirstFive(IF Hinted(turn.found, turn.intent.category_hint) # << >>
                                    THEN Hinted(turn.found, turn.intent.category_hint)
                                    ELSE turn.found)[i][3] >>]

\* a turn that selected a candidate the map then failed to locate
FailedSelection(t) ==
    /\ t.route \in {"confirm", "choose"}
    /\ t.nav_calls # << >>
    /\ ~t.nav_calls[Len(t.nav_calls)].ok

\* C26: a recognised selection empties the slot before the map is asked. When the map
\* then fails, the turn answers the could-not-locate warning for the selected candidate,
\* the map was asked for that candidate alone, the slot is empty, and the next turn is
\* read as a fresh query: no candidate of the menu can be selected any more.
C26_FailedSelectionLeavesIdle ==
    [][ /\ FailedSelection(turn') =>
              /\ turn'.before.candidates # << >>
              /\ turn'.response = NotLocated(turn'.selected[1])
              /\ Len(turn'.nav_calls) = 1
              /\ turn'.nav_calls[1].name = turn'.selected[1]
              /\ pending_confirmation' = EmptySlot
        /\ FailedSelection(turn) =>
              /\ turn'.before = EmptySlot
              /\ turn'.route = "resolve" ]_vars

\* the second candidate of a menu of three was chosen, the map did not locate it, and
\* the slot is empty
C26_SecondOfThreeNotLocated ==
    /\ turn.q = <<"2">>
    /\ turn.route = "choose"
    /\ Len(turn.before.candidates) = 3
    /\ turn.selected = turn.before.candidates[2]
    /\ FailedSelection(turn)
    /\ turn.response.kind = "not_located"
    /\ pending_confirmation = EmptySlot

\* C27: when the exact matcher finds an entity and the map fails to locate it, the turn
\* ends with the warning that the entity is in the vocabulary but could not be located
\* and no later strategy runs: no fuzzy match, no call of the extractor or the oracle, no
\* keyword search, no similarity ranking, no candidate list, no second call of the map.
C27_ExactHitNotLocatedEndsTurn ==
    (/\ turn.route = "resolve"
     /\ local_match_exact(turn.q) # NoHit
     /\ ~turn.nav_calls[1].ok)
        => /\ turn.response = InVocabularyNotLocated(local_match_exact(turn.q)[1])
           /\ turn.steps = << "exact", "navigate" >>
           /\ Len(turn.nav_calls) = 1
           /\ turn.nav_calls[1].name = local_match_exact(turn.q)[1]
           /\ turn.via = "none" /\ turn.oracle_calls = 0
           /\ turn.intent = NoData /\ turn.found = << >>
           /\ turn.response.content = << >>
           /\ pending_confirmation = turn.before

\* the alias "LIB " was found exactly, the map did not locate Library, and the turn
\* ended with the warning
C27_AliasFoundNotLocated ==
    /\ turn.q = <<"L", "I", "B", " ">>
    /\ local_match_exact(turn.q) # NoHit
    /\ ~turn.nav_calls[1].ok
    /\ turn.response.kind = "in_vocabulary_not_located"
    /\ turn.response.name = <<"L", "i", "b", "r", "a", "r", "y">>

\* the map was asked for the top entity of the ranking and did not locate it
TopNotLocated(matches) ==
    /\ Ranking
    /\ matches # << >> /\ Over(matches[1][3], 6, 10)
    /\ turn.nav_calls # << >>
    /\ ~turn.nav_calls[Len(turn.nav_calls)].ok

StillOffered(matches) ==
    TopNotLocated(matches)
        => /\ turn.nav_calls[Len(turn.nav_calls)].name = matches[1][1]
           /\ turn.response.kind = "location_confirm"
           /\ Len(turn.response.content) \in 1..3
           /\ turn.response.content[1].name = matches[1][1]
           /\ \A i \in DOMAIN turn.response.content :
                 /\ i \in DOMAIN matches
                 /\ turn.response.content[i].name = matches[i][1]
                 /\ turn.response.content[i].score = matches[i][3]

\* C28: when the top similarity score is above 0.6 and the map fails to locate the top
\* entity, the turn does not answer that nothing was found: it answers the similarity
\* candidates, the three best with their scores, with the entity that was not located
\* as first candidate.
C28_TopNotLocatedStillOffered == StillOffered(find_best_matches(turn.q, 3))

\* "knowle5" ranks Knowles above 0.6, the map did not locate it, and Knowles heads the
\* three candidates of the answer
C28_KnowlesOfferedAfterFailure ==
    /\ turn.q = <<"k", "n", "o", "w", "l", "e", "5">>
    /\ TopNotLocated(find_best_matches(turn.q, 3))
    /\ turn.response.kind = "location_confirm"
    /\ Len(turn.response.content) = 3
    /\ turn.response.content[1].name = <<"K", "n", "o", "w", "l", "e", "s">>

\* the record has keywords and one of the three category hints
WellFormed(record) ==
    /\ record.keywords # << >>
    /\ record.category_hint \in { <<"b", "u", "i", "l", "d", "i", "n", "g">>, <<"d", "e", "p", "a", "r", "t", "m", "e", "n", "t">>, <<"f", "a", "c", "i", "l", "i", "t", "y">> }

\* C29: every record extract_intent_with_llm returns - from the seed cache, from a cached
\* or fresh answer of the oracle, from the fallback rules - has keywords and a category
\* hint that is building, department or facility, whatever the oracle answers; a hint the
\* oracle leaves out or takes from elsewhere is replaced by facility.
C29_RecordsAreWellFormed ==
    /\ \A key \in DOMAIN INTENT_CACHE : WellFormed(INTENT_CACHE[key])
    /\ \A t \in Threads :
          extractions[t].pc = "done"
              => /\ WellFormed(extractions[t].result)
                 /\ (/\ extractions[t].via = "oracle"
                      /\ extractions[t].raw.data.category_hint
                            \notin { <<"b", "u", "i", "l", "d", "i", "n", "g">>, <<"d", "e", "p", "a", "r", "t", "m", "e", "n", "t">>, <<"f", "a", "c", "i", "l", "i", "t", "y">> })
                       => extractions[t].result.category_hint = <<"f", "a", "c", "i", "l", "i", "t", "y">>

\* one call returned the record of an answer whose category hint was none of the
\* three, another the record of an answer without a hint
C29_HintsReplaced ==
    \E t, u \in Threads :
        /\ extractions[t].via = "oracle"
        /\ extractions[t].raw.data.category_hint = <<"s", "p", "o", "r", "t">>
        /\ extractions[t].result.category_hint = <<"f", "a", "c", "i", "l", "i", "t", "y">>
        /\ extractions[u].via = "oracle"
        /\ extractions[u].raw.data.category_hint = None
        /\ extractions[u].result.category_hint = <<"f", "a", "c", "i", "l", "i", "t", "y">>

\* C30: the keyword search gets a subcategory hint from the fallback rules alone. The
\* records of the seed cache and those built from an answer of the oracle carry none -
\* a subcategory in the oracle's answer is dropped - so in a turn served from the cache
\* or by the oracle the search is the general search, not the bucket's, and no
\* candidate carries a subcategory.
C30_SubcategoryOnlyFromFallback ==
    /\ \A key \in DOMAIN INTENT_CACHE : INTENT_CACHE[key].subcategory = None
    /\ turn.intent.subcategory # None => turn.via = "fallback"
    /\ turn.via \in {"cache", "oracle"}
          => /\ turn.intent.subcategory = None
             /\ turn.found = GeneralSearch(Listing(ENTITIES), turn.intent.keywords)
             /\ \A i \in DOMAIN turn.response.content :
                   turn.response.content[i].subcategory = None

\* the oracle answered "gy" with the subcategory Sports, whose bucket holds Gym and
\* Pool, and the turn offered what the general search found: Gym, with no subcategory
C30_OracleSubcategoryDropped ==
    /\ turn.q = <<"g", "y">>
    /\ turn.via = "oracle"
    /\ OracleKnows[turn.q].data.subcategory = <<"S", "p", "o", "r", "t", "s">>
    /\ Len(BucketOf(<<"S", "p", "o", "r", "t", "s">>)) >= 2
    /\ Len(turn.found) = 1
    /\ turn.response.kind = "location_candidates"
    /\ turn.response.content[1].name = <<"G", "y", "m">>
    /\ turn.response.content[1].subcategory = None
====
